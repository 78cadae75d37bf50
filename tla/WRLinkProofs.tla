---------------------------- MODULE WRLinkProofs ----------------------------
(***************************************************************************)
(* Theorems about WRLink: type correctness and RoleConsistency; then, with *)
(* an invariant that follows the handshake, NonPreemption, DeltasKnown and *)
(* PatternOffInWrMode; last, with slow timers and an invariant that says   *)
(* how far each end can be by what is on its way to the other,             *)
(* LinkOnAgreement and NoStaleAnnounce.                                    *)
(***************************************************************************)
EXTENDS WRLink, TLAPS

-----------------------------------------------------------------------------
(* A port data set, field by field.                                        *)

\* The type of every field.
LEMMA PortFields ==
  ASSUME NEW p \in Port
  PROVE
    /\ p.portState \in PortState
    /\ p.wrPortState \in WrState
    /\ p.wrSubstate \in WrSubstate
    /\ p.wrMode \in WrMode
    /\ p.wrModeON \in BOOLEAN
    /\ p.wrConfig \in WrConfig
    /\ p.wrSlaveRole \in WrRole
    /\ p.parentWrConfig \in WrConfig
    /\ p.parentWrModeON \in BOOLEAN
    /\ p.parentIsForeign \in BOOLEAN
    /\ p.calibrated \in BOOLEAN
    /\ p.otherNodeCalSendPattern \in BOOLEAN
    /\ p.otherNodeCalRetry \in {0, CalRetry}
    /\ p.otherNodeDeltas \in BOOLEAN
    /\ p.msgTmpWrMessageID \in SignalId
    /\ p.currentWRstateCnt \in UInteger8
    /\ p.record_update \in BOOLEAN
    /\ p.globalStateDecisionEvent \in BOOLEAN
    /\ p.foreignWrConfig \in WrConfig
    /\ p.foreignWrModeON \in BOOLEAN
    /\ p.number_foreign_records \in {0, 1}
    /\ p.foreign_record_i \in RecordIndex
    /\ p.announceReceipt \in BOOLEAN
    /\ p.linkUP \in BOOLEAN
    /\ p.doRestart \in BOOLEAN
    /\ p.calibrationPattern \in BOOLEAN
    /\ p.out \in Seq(Message)
    /\ p.fresh \in BOOLEAN
BY DEF Port

\* A port data set stays one when a Boolean field is given a value of its type.
LEMMA BooleanUpdate ==
  ASSUME NEW p \in Port
  PROVE
    /\ \A v \in BOOLEAN : [p EXCEPT !.wrModeON = v] \in Port
    /\ \A v \in BOOLEAN : [p EXCEPT !.parentWrModeON = v] \in Port
    /\ \A v \in BOOLEAN : [p EXCEPT !.parentIsForeign = v] \in Port
    /\ \A v \in BOOLEAN : [p EXCEPT !.calibrated = v] \in Port
    /\ \A v \in BOOLEAN : [p EXCEPT !.otherNodeCalSendPattern = v] \in Port
    /\ \A v \in BOOLEAN : [p EXCEPT !.otherNodeDeltas = v] \in Port
    /\ \A v \in BOOLEAN : [p EXCEPT !.record_update = v] \in Port
    /\ \A v \in BOOLEAN : [p EXCEPT !.globalStateDecisionEvent = v] \in Port
    /\ \A v \in BOOLEAN : [p EXCEPT !.foreignWrModeON = v] \in Port
    /\ \A v \in BOOLEAN : [p EXCEPT !.announceReceipt = v] \in Port
    /\ \A v \in BOOLEAN : [p EXCEPT !.linkUP = v] \in Port
    /\ \A v \in BOOLEAN : [p EXCEPT !.doRestart = v] \in Port
    /\ \A v \in BOOLEAN : [p EXCEPT !.calibrationPattern = v] \in Port
    /\ \A v \in BOOLEAN : [p EXCEPT !.fresh = v] \in Port
<1>1. \A v \in BOOLEAN : [p EXCEPT !.wrModeON = v] \in Port
  BY DEF Port
<1>2. \A v \in BOOLEAN : [p EXCEPT !.parentWrModeON = v] \in Port
  BY DEF Port
<1>3. \A v \in BOOLEAN : [p EXCEPT !.parentIsForeign = v] \in Port
  BY DEF Port
<1>4. \A v \in BOOLEAN : [p EXCEPT !.calibrated = v] \in Port
  BY DEF Port
<1>5. \A v \in BOOLEAN : [p EXCEPT !.otherNodeCalSendPattern = v] \in Port
  BY DEF Port
<1>6. \A v \in BOOLEAN : [p EXCEPT !.otherNodeDeltas = v] \in Port
  BY DEF Port
<1>7. \A v \in BOOLEAN : [p EXCEPT !.record_update = v] \in Port
  BY DEF Port
<1>8. \A v \in BOOLEAN : [p EXCEPT !.globalStateDecisionEvent = v] \in Port
  BY DEF Port
<1>9. \A v \in BOOLEAN : [p EXCEPT !.foreignWrModeON = v] \in Port
  BY DEF Port
<1>10. \A v \in BOOLEAN : [p EXCEPT !.announceReceipt = v] \in Port
  BY DEF Port
<1>11. \A v \in BOOLEAN : [p EXCEPT !.linkUP = v] \in Port
  BY DEF Port
<1>12. \A v \in BOOLEAN : [p EXCEPT !.doRestart = v] \in Port
  BY DEF Port
<1>13. \A v \in BOOLEAN : [p EXCEPT !.calibrationPattern = v] \in Port
  BY DEF Port
<1>14. \A v \in BOOLEAN : [p EXCEPT !.fresh = v] \in Port
  BY DEF Port
<1> QED
  BY <1>1, <1>2, <1>3, <1>4, <1>5, <1>6, <1>7, <1>8, <1>9, <1>10, <1>11, <1>12, <1>13, <1>14

\* A port data set stays one when a WR configuration is given a value of its type.
LEMMA ConfigUpdate ==
  ASSUME NEW p \in Port
  PROVE
    /\ \A v \in WrConfig : [p EXCEPT !.wrConfig = v] \in Port
    /\ \A v \in WrConfig : [p EXCEPT !.parentWrConfig = v] \in Port
    /\ \A v \in WrConfig : [p EXCEPT !.foreignWrConfig = v] \in Port
<1>1. \A v \in WrConfig : [p EXCEPT !.wrConfig = v] \in Port
  BY DEF Port
<1>2. \A v \in WrConfig : [p EXCEPT !.parentWrConfig = v] \in Port
  BY DEF Port
<1>3. \A v \in WrConfig : [p EXCEPT !.foreignWrConfig = v] \in Port
  BY DEF Port
<1> QED
  BY <1>1, <1>2, <1>3

\* A port data set stays one when a field of the state machines is given a value of its type.
LEMMA StateUpdate ==
  ASSUME NEW p \in Port
  PROVE
    /\ \A v \in PortState : [p EXCEPT !.portState = v] \in Port
    /\ \A v \in WrState : [p EXCEPT !.wrPortState = v] \in Port
    /\ \A v \in WrSubstate : [p EXCEPT !.wrSubstate = v] \in Port
    /\ \A v \in WrMode : [p EXCEPT !.wrMode = v] \in Port
    /\ \A v \in WrRole : [p EXCEPT !.wrSlaveRole = v] \in Port
<1>1. \A v \in PortState : [p EXCEPT !.portState = v] \in Port
  BY DEF Port
<1>2. \A v \in WrState : [p EXCEPT !.wrPortState = v] \in Port
  BY DEF Port
<1>3. \A v \in WrSubstate : [p EXCEPT !.wrSubstate = v] \in Port
  BY DEF Port
<1>4. \A v \in WrMode : [p EXCEPT !.wrMode = v] \in Port
  BY DEF Port
<1>5. \A v \in WrRole : [p EXCEPT !.wrSlaveRole = v] \in Port
  BY DEF Port
<1> QED
  BY <1>1, <1>2, <1>3, <1>4, <1>5

\* A port data set stays one when any other field is given a value of its type.
LEMMA DataUpdate ==
  ASSUME NEW p \in Port
  PROVE
    /\ \A v \in {0, CalRetry} : [p EXCEPT !.otherNodeCalRetry = v] \in Port
    /\ \A v \in SignalId : [p EXCEPT !.msgTmpWrMessageID = v] \in Port
    /\ \A v \in UInteger8 : [p EXCEPT !.currentWRstateCnt = v] \in Port
    /\ \A v \in {0, 1} : [p EXCEPT !.number_foreign_records = v] \in Port
    /\ \A v \in RecordIndex : [p EXCEPT !.foreign_record_i = v] \in Port
    /\ \A v \in Seq(Message) : [p EXCEPT !.out = v] \in Port
<1>1. \A v \in {0, CalRetry} : [p EXCEPT !.otherNodeCalRetry = v] \in Port
  BY DEF Port
<1>2. \A v \in SignalId : [p EXCEPT !.msgTmpWrMessageID = v] \in Port
  BY DEF Port
<1>3. \A v \in UInteger8 : [p EXCEPT !.currentWRstateCnt = v] \in Port
  BY DEF Port
<1>4. \A v \in {0, 1} : [p EXCEPT !.number_foreign_records = v] \in Port
  BY DEF Port
<1>5. \A v \in RecordIndex : [p EXCEPT !.foreign_record_i = v] \in Port
  BY DEF Port
<1>6. \A v \in Seq(Message) : [p EXCEPT !.out = v] \in Port
  BY DEF Port
<1> QED
  BY <1>1, <1>2, <1>3, <1>4, <1>5, <1>6

-----------------------------------------------------------------------------
(* The operators on port data sets return port data sets.  The lemmas also *)
(* say what the operators do to the fields that RoleOK reads.              *)

\* issueWRSignalingMsg() and issueAnnounce() leave a port data set.
LEMMA SendType ==
  ASSUME NEW p \in Port, NEW type \in SignalId \cup {"ANNOUNCE"}, NEW flag \in BOOLEAN,
         type # "NULL_WR_TLV"
  PROVE  Send(p, type, flag) \in Port
<1>1. [type |-> type, flag |-> flag] \in Message
  BY DEF Message
<1>2. p.out \in Seq(Message)
  BY PortFields
<1>3. Append(p.out, [type |-> type, flag |-> flag]) \in Seq(Message)
  BY <1>1, <1>2
<1> QED
  BY <1>3, DataUpdate DEF Send

\* initWrData() leaves a port data set.
LEMMA InitWrDataType ==
  ASSUME NEW p \in Port, NEW mode \in {"INIT", "RE_INIT"}
  PROVE  InitWrData(p, mode) \in Port
<1> DEFINE p1 == [p EXCEPT !.wrModeON = FALSE]
           p2 == [p1 EXCEPT !.wrPortState = "IDLE"]
           p3 == [p2 EXCEPT !.wrSubstate = 0]
           p4 == [p3 EXCEPT !.calibrated = ~PhyCalibrationRequired]
           p5 == [p4 EXCEPT !.parentWrConfig = "NON_WR"]
           p6 == [p5 EXCEPT !.parentWrModeON = FALSE]
           p7 == [p6 EXCEPT !.otherNodeCalRetry = 0]
           p8 == [p7 EXCEPT !.otherNodeCalSendPattern = FALSE]
           p9 == [p8 EXCEPT !.otherNodeDeltas = FALSE]
           mode0 == IF mode = "INIT" THEN "NON_WR" ELSE p.wrMode
           role0 == IF mode = "INIT" THEN "NON_SLAVE" ELSE p.wrSlaveRole
           p10 == [p9 EXCEPT !.wrMode = mode0]
           p11 == [p10 EXCEPT !.wrSlaveRole = role0]
<1>1. mode0 \in WrMode /\ role0 \in WrRole
  BY PortFields DEF WrMode, WrRole
<1> HIDE DEF mode0, role0, p1, p2, p3, p4, p5, p6, p7, p8, p9, p10, p11
<1>2. p1 \in Port
  BY BooleanUpdate DEF p1
<1>3. p2 \in Port
  BY <1>2, StateUpdate DEF WrState, p2
<1>0. 0 \in WrSubstate
  BY DEF WrSubstate
<1>4. p3 \in Port
  BY <1>3, <1>0, StateUpdate DEF p3
<1>5. p4 \in Port
  BY <1>4, BooleanUpdate DEF p4
<1>6. p5 \in Port
  BY <1>5, ConfigUpdate DEF WrConfig, p5
<1>7. p6 \in Port
  BY <1>6, BooleanUpdate DEF p6
<1>8. p7 \in Port
  BY <1>7, DataUpdate DEF p7
<1>9. p8 \in Port
  BY <1>8, BooleanUpdate DEF p8
<1>10. p9 \in Port
  BY <1>9, BooleanUpdate DEF p9
<1>11. p10 \in Port
  BY <1>1, <1>10, StateUpdate DEF p10
<1>12. p11 \in Port
  BY <1>1, <1>11, StateUpdate DEF p11
<1> QED
  BY <1>12 DEF InitWrData, mode0, role0,
     p1, p2, p3, p4, p5, p6, p7, p8, p9, p10, p11

\* initWrData() leaves the WR FSM idle; RE_INIT keeps the mode and the role.
LEMMA InitWrDataFields ==
  ASSUME NEW p \in Port, NEW mode
  PROVE  LET q == InitWrData(p, mode)
         IN  /\ q.portState = p.portState
             /\ q.wrPortState = "IDLE"
             /\ mode # "INIT" => q.wrMode = p.wrMode /\ q.wrSlaveRole = p.wrSlaveRole
BY DEF InitWrData, Port

\* wrTimetoutManage() counts modulo 256 and leaves the states alone.
LEMMA WrTimetoutManageType ==
  ASSUME NEW p \in Port, NEW entering \in WrState, NEW exiting \in WrState
  PROVE  LET q == WrTimetoutManage(p, entering, exiting)
         IN  /\ q \in Port
             /\ q.portState = p.portState
             /\ q.wrPortState = p.wrPortState
             /\ q.wrMode = p.wrMode
             /\ q.wrSlaveRole = p.wrSlaveRole
<1> DEFINE cnt == IF entering # exiting THEN 0 ELSE (p.currentWRstateCnt + 1) % 256
           starts == (entering # "IDLE")
           p1 == [p EXCEPT !.currentWRstateCnt = cnt]
           p2 == [p1 EXCEPT !.fresh = starts]
<1>1. p.currentWRstateCnt \in UInteger8
  BY PortFields
<1>2. cnt \in UInteger8
  BY <1>1 DEF UInteger8
<1>3. WrTimetoutManage(p, entering, exiting) = p2
  BY DEF WrTimetoutManage
<1> HIDE DEF cnt
<1>4. p1 \in Port
  BY <1>2, DataUpdate
<1>5. starts \in BOOLEAN
  OBVIOUS
<1> HIDE DEF starts, p1
<1>6. p2 \in Port
  BY <1>4, <1>5, BooleanUpdate
<1>7. /\ p2.portState = p.portState
      /\ p2.wrPortState = p.wrPortState
      /\ p2.wrMode = p.wrMode
      /\ p2.wrSlaveRole = p.wrSlaveRole
  BY DEF p1, Port
<1> QED
  BY <1>3, <1>6, <1>7

\* What most operators leave alone.
SameRole(q, p) ==
  /\ q.portState = p.portState
  /\ q.wrMode = p.wrMode
  /\ q.wrSlaveRole = p.wrSlaveRole

\* A change of the WR state leaves the PTP state, the mode and the role alone.
LEMMA ToSubstateType ==
  ASSUME NEW p \in Port, NEW s \in WrState, NEW i \in WrSubstate
  PROVE  /\ ToSubstate(p, s, i) \in Port
         /\ SameRole(ToSubstate(p, s, i), p)
         /\ ToSubstate(p, s, i).wrPortState = s
<1> DEFINE p1 == [p EXCEPT !.wrPortState = s]
           p2 == [p1 EXCEPT !.wrSubstate = i]
<1> HIDE DEF p1, p2
<1>1. p1 \in Port
  BY StateUpdate DEF p1
<1>2. p2 \in Port
  BY <1>1, StateUpdate DEF p2
<1>3. ToSubstate(p, s, i) = p2
  BY DEF ToSubstate, p1, p2
<1>4. SameRole(p2, p) /\ p2.wrPortState = s
  BY DEF p1, p2, SameRole, Port
<1> QED
  BY <1>2, <1>3, <1>4

\* Switching the calibration pattern on changes no state of the port.
LEMMA SendPatternType ==
  ASSUME NEW p \in Port, NEW on \in BOOLEAN
  PROVE  /\ SendPattern(p, on) \in Port
         /\ SameRole(SendPattern(p, on), p)
         /\ SendPattern(p, on).wrPortState = p.wrPortState
<1>1. (p.calibrationPattern \/ on) \in BOOLEAN
  OBVIOUS
<1>2. SendPattern(p, on) \in Port
  BY <1>1, BooleanUpdate DEF SendPattern
<1> QED
  BY <1>2 DEF SendPattern, SameRole, Port

\* Entering WRS_WR_LINK_ON keeps the PTP state, the mode and the role.
LEMMA EnterWrLinkOnType ==
  ASSUME NEW p \in Port
  PROVE  /\ EnterWrLinkOn(p) \in Port
         /\ SameRole(EnterWrLinkOn(p), p)
         /\ EnterWrLinkOn(p).wrPortState = "WR_LINK_ON"
<1> DEFINE p0 == IF p.wrMode = "WR_MASTER" THEN Send(p, "WR_MODE_ON", FALSE) ELSE p
           p1 == [p0 EXCEPT !.wrPortState = "WR_LINK_ON"]
           p2 == [p1 EXCEPT !.wrSubstate = 0]
           p3 == [p2 EXCEPT !.wrModeON = TRUE]
           p4 == [p3 EXCEPT !.parentWrModeON = TRUE]
           p5 == [p4 EXCEPT !.foreignWrModeON = TRUE]
<1>1. p0 \in Port /\ SameRole(p0, p)
  <2>1. Send(p, "WR_MODE_ON", FALSE) \in Port
    BY SendType DEF SignalId
  <2>2. SameRole(Send(p, "WR_MODE_ON", FALSE), p)
    BY DEF Send, Port, SameRole
  <2>3. SameRole(p, p)
    BY DEF SameRole
  <2> QED
    BY <2>1, <2>2, <2>3
<1> HIDE DEF p0, p1, p2, p3, p4, p5
<1>2. p1 \in Port
  BY <1>1, StateUpdate DEF p1, WrState
<1>3. 0 \in WrSubstate
  BY DEF WrSubstate
<1>4. p2 \in Port
  BY <1>2, <1>3, StateUpdate DEF p2
<1>5. p3 \in Port
  BY <1>4, BooleanUpdate DEF p3
<1>6. p4 \in Port
  BY <1>5, BooleanUpdate DEF p4
<1>7. p5 \in Port
  BY <1>6, BooleanUpdate DEF p5
<1>8. SameRole(p5, p) /\ p5.wrPortState = "WR_LINK_ON"
  BY <1>1 DEF p1, p2, p3, p4, p5, SameRole, Port
<1>9. EnterWrLinkOn(p) = p5
  BY DEF EnterWrLinkOn, p0, p1, p2, p3, p4, p5
<1> QED
  BY <1>7, <1>8, <1>9

\* toWRState() enters the state it is asked for; only a port without a slave
\* role is not locked.
LEMMA EnterWRStateType ==
  ASSUME NEW p \in Port, NEW s \in WrState, NEW hw \in Nat
  PROVE  LET q == EnterWRState(p, s, hw)
         IN  /\ q \in Port
             /\ SameRole(q, p)
             /\ q.wrPortState = s \/ (s = "S_LOCK" /\ q.wrPortState = p.wrPortState)
<1> DEFINE q == EnterWRState(p, s, hw)
           Goal == /\ q \in Port
                   /\ SameRole(q, p)
                   /\ q.wrPortState = s \/ (s = "S_LOCK" /\ q.wrPortState = p.wrPortState)
<1> SUFFICES Goal
  OBVIOUS
<1>1. /\ 0 \in WrSubstate /\ 1 \in WrSubstate /\ 2 \in WrSubstate
      /\ AtMost(hw, 1) \in WrSubstate /\ AtMost(hw, 2) \in WrSubstate
  BY DEF WrSubstate, AtMost
<1>3. CASE s \in {"PRESENT", "LOCKED", "M_LOCK"}
  <2> DEFINE type == IF s = "PRESENT" THEN "SLAVE_PRESENT"
                     ELSE IF s = "LOCKED" THEN "LOCKED" ELSE "LOCK"
             p0 == Send(p, type, FALSE)
  <2>1. type \in SignalId /\ type # "NULL_WR_TLV" /\ FALSE \in BOOLEAN
    BY DEF SignalId
  <2>2. q = ToSubstate(p0, s, 0)
    BY <1>3 DEF EnterWRState
  <2> HIDE DEF type
  <2>3. p0 \in Port
    BY <2>1, SendType
  <2>4. SameRole(p0, p)
    BY DEF Send, Port, SameRole
  <2> HIDE DEF p0, q
  <2>5. q \in Port /\ SameRole(q, p0) /\ q.wrPortState = s
    BY <1>1, <2>2, <2>3, ToSubstateType
  <2> QED
    BY <2>4, <2>5 DEF SameRole
<1>4. CASE s = "S_LOCK"
  <2>1. q = p \/ q = ToSubstate(p, s, AtMost(hw, 1))
    BY <1>4 DEF EnterWRState
  <2> HIDE DEF q
  <2> QED
    BY <1>1, <1>4, <2>1, ToSubstateType DEF SameRole
<1>5. CASE s = "CALIBRATION"
  <2> DEFINE p0 == Send(p, "CALIBRATE", ~p.calibrated)
             i == IF p.calibrated THEN 2 ELSE AtMost(hw, 2)
             c == (~p.calibrated /\ hw > 0)
  <2>1. (~p.calibrated) \in BOOLEAN /\ c \in BOOLEAN
    OBVIOUS
  <2>2. p0 \in Port
    BY <2>1, SendType DEF SignalId
  <2>3. SameRole(p0, p)
    BY DEF Send, Port, SameRole
  <2>4. i \in WrSubstate
    BY <1>1
  <2>5. q = SendPattern(ToSubstate(p0, s, i), c)
    BY <1>5 DEF EnterWRState
  <2> HIDE DEF p0, i, c, q
  <2>6. ToSubstate(p0, s, i) \in Port
    BY <2>2, <2>4, ToSubstateType
  <2> QED
    BY <2>1, <2>2, <2>3, <2>4, <2>5, <2>6, ToSubstateType, SendPatternType DEF SameRole
<1>6. CASE s = "RESP_CALIB_REQ"
  <2> DEFINE i == IF p.otherNodeCalSendPattern THEN AtMost(hw, 1) ELSE 1
             c == (p.otherNodeCalSendPattern /\ hw > 0)
  <2>1. c \in BOOLEAN
    OBVIOUS
  <2>2. i \in WrSubstate
    BY <1>1
  <2>3. q = SendPattern(ToSubstate(p, s, i), c)
    BY <1>6 DEF EnterWRState
  <2> HIDE DEF i, c, q
  <2>4. ToSubstate(p, s, i) \in Port
    BY <2>2, ToSubstateType
  <2> QED
    BY <2>1, <2>2, <2>3, <2>4, ToSubstateType, SendPatternType DEF SameRole
<1>7. CASE s = "WR_LINK_ON"
  <2>1. q = EnterWrLinkOn(p)
    BY <1>7 DEF EnterWRState
  <2> HIDE DEF q
  <2> QED
    BY <1>7, <2>1, EnterWrLinkOnType
<1>8. CASE s \in {"CALIBRATED", "IDLE"}
  <2>1. q = ToSubstate(p, s, 0)
    BY <1>8 DEF EnterWRState
  <2> HIDE DEF q
  <2> QED
    BY <1>1, <2>1, ToSubstateType
<1> QED
  BY <1>3, <1>4, <1>5, <1>6, <1>7, <1>8 DEF WrState

\* toWRState() keeps the PTP state, the mode and the role, and leaves the WR
\* FSM idle only when asked to.
LEMMA ToWRStateType ==
  ASSUME NEW p \in Port, NEW s \in WrState, NEW hw \in Nat
  PROVE  LET q == ToWRState(p, s, hw)
         IN  /\ q \in Port
             /\ SameRole(q, p)
             /\ s # "S_LOCK" => q.wrPortState = s
             /\ p.wrPortState # "IDLE" => q.wrPortState \in {s, p.wrPortState}
<1> DEFINE left == IF p.wrPortState = "IDLE" THEN InitWrData(p, "RE_INIT") ELSE p
           entered == EnterWRState(left, s, hw)
<1>1. p.wrPortState \in WrState
  BY PortFields
<1>2. /\ left \in Port /\ SameRole(left, p)
      /\ p.wrPortState # "IDLE" => left.wrPortState = p.wrPortState
  BY InitWrDataType, InitWrDataFields DEF SameRole
<1> HIDE DEF left
<1>3. /\ entered \in Port /\ SameRole(entered, left)
      /\ entered.wrPortState = s
         \/ (s = "S_LOCK" /\ entered.wrPortState = left.wrPortState)
  BY <1>2, EnterWRStateType
<1> HIDE DEF entered
<1>4. ToWRState(p, s, hw) = WrTimetoutManage(entered, s, p.wrPortState)
  BY DEF ToWRState, entered, left
<1> QED
  BY <1>1, <1>2, <1>3, <1>4, WrTimetoutManageType DEF SameRole

-----------------------------------------------------------------------------
(* The PTP state.                                                          *)

SameMachine(q, p) == SameRole(q, p) /\ q.wrPortState = p.wrPortState

\* The WR FSM runs and is driven.
Running(p) == p.wrPortState # "IDLE" /\ Driven(p)

\* RoleOK and Running depend on the fields of SameMachine only.
LEMMA SameMachineRole ==
  ASSUME NEW p, NEW q, SameMachine(q, p)
  PROVE  (RoleOK(p) => RoleOK(q)) /\ (Running(p) => Running(q))
BY DEF SameMachine, SameRole, RoleOK, Running, Driven

\* A port whose WR FSM is driven, or is idle outside PTP_UNCALIBRATED, is RoleOK.
LEMMA RunningRole ==
  ASSUME NEW p
  PROVE  /\ Running(p) => RoleOK(p)
         /\ p.wrPortState = "IDLE" /\ p.portState # "UNCALIBRATED" => RoleOK(p)
BY DEF RoleOK, Running, Driven

\* What toState() does when it leaves a state.
LEMMA LeaveStateType ==
  ASSUME NEW p \in Port
  PROVE  LET q == LeaveState(p)
         IN  /\ q \in Port
             /\ q.wrPortState = p.wrPortState
             /\ q.wrSlaveRole = p.wrSlaveRole
<1> DEFINE p1 == [p EXCEPT !.announceReceipt = FALSE]
           p2 == [p1 EXCEPT !.wrMode = "NON_WR"]
           p3 == [p2 EXCEPT !.wrModeON = FALSE]
<1> HIDE DEF p1, p2, p3
<1>1. p1 \in Port
  BY BooleanUpdate DEF p1
<1>2. p2 \in Port
  BY <1>1, StateUpdate DEF p2, WrMode
<1>3. p3 \in Port
  BY <1>2, BooleanUpdate DEF p3
<1>4. /\ p1.wrPortState = p.wrPortState /\ p1.wrSlaveRole = p.wrSlaveRole
      /\ p3.wrPortState = p.wrPortState /\ p3.wrSlaveRole = p.wrSlaveRole
  BY DEF p1, p2, p3, Port
<1>5. LeaveState(p) \in {p, p1, p3}
  BY DEF LeaveState, p1, p2, p3
<1> QED
  BY <1>1, <1>3, <1>4, <1>5

\* PTP_UNCALIBRATED is entered with the WR FSM, or it is not entered.
LEMMA EnterUncalibratedType ==
  ASSUME NEW p \in Port, p.wrPortState = "IDLE", p.wrSlaveRole # "NON_SLAVE"
  PROVE  EnterUncalibrated(p) \in Port /\ RoleOK(EnterUncalibrated(p))
<1> DEFINE q == EnterUncalibrated(p)
           w == ToWRState(p, "PRESENT", 0)
           u == [w EXCEPT !.portState = "UNCALIBRATED"]
           s == [p EXCEPT !.portState = "SLAVE"]
           m == [p EXCEPT !.wrMode = "NON_WR"]
           ms == [m EXCEPT !.portState = "SLAVE"]
<1>1. /\ CandidateForWrSlave(p) /\ q = u
      \/ q = s
      \/ q = ms
  BY DEF EnterUncalibrated
<1>2. w \in Port /\ SameRole(w, p) /\ w.wrPortState = "PRESENT"
  BY ToWRStateType DEF WrState
<1> HIDE DEF q, w, u, s, m, ms
<1>3. u \in Port /\ s \in Port
  BY <1>2, StateUpdate DEF u, s, PortState
<1>4. m \in Port
  BY StateUpdate DEF m, WrMode
<1>5. ms \in Port
  BY <1>4, StateUpdate DEF ms, PortState
<1>6. CandidateForWrSlave(p) => RoleOK(u)
  BY <1>2 DEF u, CandidateForWrSlave, RoleOK, Driven, SameRole, Port
<1>7. RoleOK(s)
  BY DEF s, RoleOK, Port
<1>8. RoleOK(ms)
  BY DEF ms, m, RoleOK, Port
<1>9. q \in Port /\ RoleOK(q)
  BY <1>1, <1>3, <1>5, <1>6, <1>7, <1>8
<1> QED
  BY <1>9 DEF q

\* toState() does nothing while the WR FSM runs, and starts it only in a port
\* that it leaves UNCALIBRATED.
LEMMA ToStateType ==
  ASSUME NEW p \in Port, NEW s \in PortState,
         s = "UNCALIBRATED" => p.wrSlaveRole # "NON_SLAVE"
  PROVE  LET q == ToState(p, s)
         IN  /\ q \in Port
             /\ p.wrPortState # "IDLE" => q = p
             /\ p.wrPortState = "IDLE" => RoleOK(q)
             /\ p.wrPortState = "IDLE" /\ s # "UNCALIBRATED" =>
                  q.portState = s /\ q.wrPortState = "IDLE"
<1> DEFINE q == ToState(p, s)
           l == LeaveState(p)
           on == (l.announceReceipt \/ s \in {"LISTENING", "SLAVE"})
           e == [l EXCEPT !.portState = s]
           ea == [e EXCEPT !.announceReceipt = on]
<1>1. l \in Port /\ l.wrPortState = p.wrPortState /\ l.wrSlaveRole = p.wrSlaveRole
  BY LeaveStateType
<1>2. on \in BOOLEAN
  OBVIOUS
<1>3. /\ p.wrPortState # "IDLE" => q = p
      /\ p.wrPortState = "IDLE" /\ s = "UNCALIBRATED" => q = EnterUncalibrated(l)
      /\ p.wrPortState = "IDLE" /\ s # "UNCALIBRATED" => q = ea
  BY DEF ToState, EnterState
<1> HIDE DEF q, l, on, e, ea
<1>4. e \in Port
  BY <1>1, StateUpdate DEF e
<1>5. ea \in Port
  BY <1>2, <1>4, BooleanUpdate DEF ea
<1>6. ea.portState = s /\ ea.wrPortState = p.wrPortState
  BY <1>1 DEF ea, e, Port
<1>7. s = "UNCALIBRATED" /\ p.wrPortState = "IDLE" =>
        EnterUncalibrated(l) \in Port /\ RoleOK(EnterUncalibrated(l))
  BY <1>1, EnterUncalibratedType
<1>8. /\ q \in Port
      /\ p.wrPortState # "IDLE" => q = p
      /\ p.wrPortState = "IDLE" => RoleOK(q)
      /\ p.wrPortState = "IDLE" /\ s # "UNCALIBRATED" =>
           q.portState = s /\ q.wrPortState = "IDLE"
  BY <1>3, <1>5, <1>6, <1>7, RunningRole
<1> QED
  BY <1>8 DEF q

\* m1() of bmc.c changes neither state machine.
LEMMA M1Type ==
  ASSUME NEW p \in Port
  PROVE  LET q == M1(p)
         IN  /\ q \in Port
             /\ q.portState = p.portState
             /\ q.wrPortState = p.wrPortState
             /\ q.wrMode = p.wrMode
<1> DEFINE p1 == [p EXCEPT !.parentWrConfig = p.wrConfig]
           p2 == [p1 EXCEPT !.parentWrModeON = p.wrModeON]
           p3 == [p2 EXCEPT !.wrSlaveRole = "NON_SLAVE"]
<1> HIDE DEF p1, p2, p3
<1>1. p.wrConfig \in WrConfig /\ p.wrModeON \in BOOLEAN
  BY PortFields
<1>2. p1 \in Port
  BY <1>1, ConfigUpdate DEF p1
<1>3. p2 \in Port
  BY <1>1, <1>2, BooleanUpdate DEF p2
<1>4. p3 \in Port
  BY <1>3, StateUpdate DEF p3, WrRole
<1>5. M1(p) = p3
  BY DEF M1, p1, p2, p3
<1>6. p3.portState = p.portState /\ p3.wrPortState = p.wrPortState /\ p3.wrMode = p.wrMode
  BY DEF p1, p2, p3, Port
<1> QED
  BY <1>4, <1>5, <1>6

\* s1() of bmc.c changes neither state machine and gives a slave role.
LEMMA S1Type ==
  ASSUME NEW p \in Port
  PROVE  LET q == S1(p)
         IN  /\ q \in Port
             /\ q.portState = p.portState
             /\ q.wrPortState = p.wrPortState
             /\ q.wrMode = p.wrMode
             /\ q.wrSlaveRole = "PRIMARY_SLAVE"
<1> DEFINE foreign == (p.foreignWrConfig # "NON_WR")
           p1 == [p EXCEPT !.parentIsForeign = foreign]
           p2 == [p1 EXCEPT !.parentWrConfig = p.foreignWrConfig]
           p3 == [p2 EXCEPT !.parentWrModeON = p.foreignWrModeON]
           p4 == [p3 EXCEPT !.wrSlaveRole = "PRIMARY_SLAVE"]
<1>1. foreign \in BOOLEAN
  OBVIOUS
<1>2. p.foreignWrConfig \in WrConfig /\ p.foreignWrModeON \in BOOLEAN
  BY PortFields
<1> HIDE DEF foreign, p1, p2, p3, p4
<1>3. p1 \in Port
  BY <1>1, BooleanUpdate DEF p1
<1>4. p2 \in Port
  BY <1>2, <1>3, ConfigUpdate DEF p2
<1>5. p3 \in Port
  BY <1>2, <1>4, BooleanUpdate DEF p3
<1>6. p4 \in Port
  BY <1>5, StateUpdate DEF p4, WrRole
<1>7. S1(p) = p4
  BY DEF S1, foreign, p1, p2, p3, p4
<1>8. /\ p4.portState = p.portState /\ p4.wrPortState = p.wrPortState
      /\ p4.wrMode = p.wrMode /\ p4.wrSlaveRole = "PRIMARY_SLAVE"
  BY DEF p1, p2, p3, p4, Port
<1> QED
  BY <1>6, <1>7, <1>8

\* clearForeignMasters() changes neither state machine.
LEMMA ClearForeignMastersType ==
  ASSUME NEW p \in Port
  PROVE  ClearForeignMasters(p) \in Port /\ SameMachine(ClearForeignMasters(p), p)
<1> DEFINE p1 == [p EXCEPT !.number_foreign_records = 0]
           p2 == [p1 EXCEPT !.foreign_record_i = 0]
<1> HIDE DEF p1, p2
<1>1. p1 \in Port
  BY DataUpdate DEF p1
<1>2. 0 \in RecordIndex
  BY TableAssumption DEF RecordIndex
<1>3. p2 \in Port
  BY <1>1, <1>2, DataUpdate DEF p2
<1>4. ClearForeignMasters(p) = p2
  BY DEF ClearForeignMasters, p1, p2
<1>5. SameMachine(p2, p)
  BY DEF p1, p2, SameMachine, SameRole, Port
<1> QED
  BY <1>3, <1>4, <1>5

\* doInit() leaves a port listening with the WR FSM idle.
LEMMA DoInitType ==
  ASSUME NEW p \in Port
  PROVE  DoInit(p) \in Port /\ RoleOK(DoInit(p))
<1> DEFINE i == InitWrData(p, "INIT")
           p1 == [i EXCEPT !.doRestart = FALSE]
           p2 == [p1 EXCEPT !.number_foreign_records = 0]
           p3 == [p2 EXCEPT !.announceReceipt = FALSE]
<1>1. i \in Port /\ i.wrPortState = "IDLE"
  BY InitWrDataType, InitWrDataFields
<1> HIDE DEF i, p1, p2, p3
<1>2. p1 \in Port
  BY <1>1, BooleanUpdate DEF p1
<1>3. p2 \in Port
  BY <1>2, DataUpdate DEF p2
<1>4. p3 \in Port
  BY <1>3, BooleanUpdate DEF p3
<1>5. p3.wrPortState = "IDLE"
  BY <1>1 DEF p1, p2, p3, Port
<1>6. DoInit(p) = ToState(M1(p3), "LISTENING")
  BY DEF DoInit, i, p1, p2, p3
<1>7. M1(p3) \in Port /\ M1(p3).wrPortState = "IDLE"
  BY <1>4, <1>5, M1Type
<1> QED
  BY <1>6, <1>7, ToStateType DEF PortState

-----------------------------------------------------------------------------
(* Receiving a frame.                                                      *)

\* msgUnpackAnnounce() changes neither state machine.
LEMMA UnpackAnnounceType ==
  ASSUME NEW p \in Port, NEW m \in Message
  PROVE  UnpackAnnounce(p, m) \in Port /\ SameMachine(UnpackAnnounce(p, m), p)
<1> DEFINE p1 == [p EXCEPT !.foreignWrConfig = "WR_M_ONLY"]
           p2 == [p1 EXCEPT !.foreignWrModeON = m.flag]
<1> HIDE DEF p1, p2
<1>1. p1 \in Port
  BY ConfigUpdate DEF p1, WrConfig
<1>2. m.flag \in BOOLEAN
  BY DEF Message
<1>3. p2 \in Port
  BY <1>1, <1>2, BooleanUpdate DEF p2
<1>4. UnpackAnnounce(p, m) = p2
  BY DEF UnpackAnnounce, p1, p2
<1>5. SameMachine(p2, p)
  BY DEF p1, p2, SameMachine, SameRole, Port
<1> QED
  BY <1>3, <1>4, <1>5

\* addForeign() changes neither state machine and stays in the table.
LEMMA AddForeignType ==
  ASSUME NEW p \in Port, NEW m \in Message
  PROVE  AddForeign(p, m) \in Port /\ SameMachine(AddForeign(p, m), p)
<1> DEFINE p0 == IF p.foreign_record_i = 0 THEN UnpackAnnounce(p, m) ELSE p
           i == (p0.foreign_record_i + 1) % MaxForeignRecords
           p1 == [p0 EXCEPT !.number_foreign_records = 1]
           p2 == [p1 EXCEPT !.foreign_record_i = i]
<1>1. p0 \in Port /\ SameMachine(p0, p)
  BY UnpackAnnounceType DEF SameMachine, SameRole
<1>2. AddForeign(p, m) \in {UnpackAnnounce(p, m), p2}
  BY DEF AddForeign
<1> HIDE DEF p0, p1, p2
<1>3. p0.foreign_record_i \in RecordIndex
  BY <1>1, PortFields
<1>4. i \in RecordIndex
  BY <1>3, TableAssumption DEF RecordIndex
<1> HIDE DEF i
<1>5. p1 \in Port
  BY <1>1, DataUpdate DEF p1
<1>6. p2 \in Port
  BY <1>4, <1>5, DataUpdate DEF p2
<1>7. SameMachine(p2, p)
  BY <1>1 DEF p1, p2, SameMachine, SameRole, Port
<1> QED
  BY <1>2, <1>6, <1>7, UnpackAnnounceType

\* handleAnnounce() changes neither state machine.
LEMMA HandleAnnounceType ==
  ASSUME NEW p \in Port, NEW m \in Message
  PROVE  HandleAnnounce(p, m) \in Port /\ SameMachine(HandleAnnounce(p, m), p)
<1> DEFINE p0 == IF p.portState \in {"UNCALIBRATED", "SLAVE"} /\ p.parentIsForeign
                 THEN UnpackAnnounce(p, m) ELSE AddForeign(p, m)
           p1 == [p0 EXCEPT !.record_update = TRUE]
           p2 == [p1 EXCEPT !.announceReceipt = TRUE]
<1>1. p0 \in Port /\ SameMachine(p0, p)
  BY UnpackAnnounceType, AddForeignType
<1>2. HandleAnnounce(p, m) \in {p, p1, p2}
  BY DEF HandleAnnounce
<1> HIDE DEF p0, p1, p2
<1>3. p1 \in Port
  BY <1>1, BooleanUpdate DEF p1
<1>4. p2 \in Port
  BY <1>3, BooleanUpdate DEF p2
<1>5. SameMachine(p1, p) /\ SameMachine(p2, p)
  BY <1>1 DEF p1, p2, SameMachine, SameRole, Port
<1>6. SameMachine(p, p)
  BY DEF SameMachine, SameRole
<1> QED
  BY <1>2, <1>3, <1>4, <1>5, <1>6

\* msgUnpackWRSignalingMsg() changes neither state machine.
LEMMA UnpackSignalingType ==
  ASSUME NEW p \in Port, NEW m \in Message, m.type # "ANNOUNCE"
  PROVE  UnpackSignaling(p, m) \in Port /\ SameMachine(UnpackSignaling(p, m), p)
<1> DEFINE pattern == IF m.type = "CALIBRATE" THEN m.flag ELSE p.otherNodeCalSendPattern
           retry == IF m.type = "CALIBRATE" THEN CalRetry ELSE p.otherNodeCalRetry
           deltas == (p.otherNodeDeltas \/ m.type = "CALIBRATED")
           p1 == [p EXCEPT !.msgTmpWrMessageID = m.type]
           p2 == [p1 EXCEPT !.otherNodeCalSendPattern = pattern]
           p3 == [p2 EXCEPT !.otherNodeCalRetry = retry]
           p4 == [p3 EXCEPT !.otherNodeDeltas = deltas]
<1>1. m.type \in SignalId /\ m.flag \in BOOLEAN
  BY DEF Message
<1>2. p.otherNodeCalSendPattern \in BOOLEAN /\ p.otherNodeCalRetry \in {0, CalRetry}
  BY PortFields
<1>3. pattern \in BOOLEAN
  BY <1>1, <1>2
<1>4. retry \in {0, CalRetry}
  BY <1>2
<1>5. deltas \in BOOLEAN
  OBVIOUS
<1> HIDE DEF pattern, retry, deltas, p1, p2, p3, p4
<1>6. p1 \in Port
  BY <1>1, DataUpdate DEF p1
<1>7. p2 \in Port
  BY <1>3, <1>6, BooleanUpdate DEF p2
<1>8. p3 \in Port
  BY <1>4, <1>7, DataUpdate DEF p3
<1>9. p4 \in Port
  BY <1>5, <1>8, BooleanUpdate DEF p4
<1>10. UnpackSignaling(p, m) = p4
  BY DEF UnpackSignaling, pattern, retry, deltas, p1, p2, p3, p4
<1>11. SameMachine(p4, p)
  BY DEF p1, p2, p3, p4, SameMachine, SameRole, Port
<1> QED
  BY <1>9, <1>10, <1>11

\* A SLAVE_PRESENT starts the WR FSM in a master only, as WR master.
LEMMA HandleSignalingType ==
  ASSUME NEW p \in Port, NEW m \in Message, m.type # "ANNOUNCE"
  PROVE  LET q == HandleSignaling(p, m)
         IN  /\ q \in Port
             /\ RoleOK(p) => RoleOK(q)
             /\ Running(p) => Running(q)
             /\ p.portState # "MASTER" => q.wrPortState = p.wrPortState
<1> DEFINE u == UnpackSignaling(p, m)
           w == [u EXCEPT !.wrMode = "WR_MASTER"]
           t == ToWRState(w, "M_LOCK", 0)
           q == HandleSignaling(p, m)
<1>1. u \in Port /\ SameMachine(u, p)
  BY UnpackSignalingType
<1>2. q = u \/ (u.portState = "MASTER" /\ q = t)
  BY DEF HandleSignaling
<1> HIDE DEF u, w, t, q
<1>3. w \in Port
  BY <1>1, StateUpdate DEF w, WrMode
<1>4. w.wrMode = "WR_MASTER" /\ w.portState = u.portState
  BY <1>1 DEF w, Port
<1>5. t \in Port /\ SameRole(t, w) /\ t.wrPortState = "M_LOCK"
  BY <1>3, ToWRStateType DEF t, WrState
<1>6. u.portState = "MASTER" => Running(t)
  BY <1>4, <1>5 DEF SameRole, Running, Driven
<1>7. /\ q \in Port
      /\ RoleOK(p) => RoleOK(q)
      /\ Running(p) => Running(q)
      /\ p.portState # "MASTER" => q.wrPortState = p.wrPortState
  BY <1>1, <1>2, <1>5, <1>6, SameMachineRole, RunningRole DEF SameMachine, SameRole
<1> QED
  BY <1>7 DEF q

\* handle() never leaves the WR FSM running where doWRState() does not drive
\* it: handleSignaling() starts it in a master only, and toState() refuses
\* PTP_FAULTY while it runs.
LEMMA HandleType ==
  ASSUME NEW p \in Port, NEW rx \in Received
  PROVE  LET q == Handle(p, rx)
         IN  /\ q \in Port
             /\ RoleOK(p) => RoleOK(q)
             /\ Running(p) => Running(q)
             /\ p.portState # "MASTER" => q.wrPortState = p.wrPortState
<1> DEFINE q == Handle(p, rx)
           Goal == /\ q \in Port
                   /\ RoleOK(p) => RoleOK(q)
                   /\ Running(p) => Running(q)
                   /\ p.portState # "MASTER" => q.wrPortState = p.wrPortState
<1> SUFFICES Goal
  OBVIOUS
<1>1. CASE rx = NoFrame
  BY <1>1 DEF Handle, NoFrame
<1>2. CASE rx = RecvError
  <2>1. q = ToState(p, "FAULTY")
    BY <1>2 DEF Handle, RecvError
  <2> HIDE DEF q
  <2>2. /\ q \in Port
        /\ p.wrPortState # "IDLE" => q = p
        /\ p.wrPortState = "IDLE" => RoleOK(q) /\ q.wrPortState = "IDLE"
    BY <2>1, ToStateType DEF PortState
  <2> QED
    BY <2>2 DEF Running
<1>3. CASE rx = DelayResp
  <2> DEFINE again == (p.doRestart \/ (p.portState = "SLAVE" /\ p.parentIsForeign))
  <2>1. again \in BOOLEAN
    OBVIOUS
  <2>2. q = [p EXCEPT !.doRestart = again]
    BY <1>3 DEF Handle, DelayResp
  <2> HIDE DEF q, again
  <2>3. q \in Port
    BY <2>1, <2>2, BooleanUpdate
  <2>4. SameMachine(q, p)
    BY <2>2 DEF SameMachine, SameRole, Port
  <2> QED
    BY <2>3, <2>4, SameMachineRole DEF SameMachine
<1>4. CASE rx \in Message /\ rx.type = "ANNOUNCE"
  <2>1. q = HandleAnnounce(p, rx)
    BY <1>4 DEF Handle
  <2> HIDE DEF q
  <2> QED
    BY <1>4, <2>1, HandleAnnounceType, SameMachineRole DEF SameMachine
<1>5. CASE rx \in Message /\ rx.type # "ANNOUNCE"
  <2>1. rx.type \notin {"NONE", "ERROR", "DELAY_RESP"}
    BY <1>5 DEF Message, SignalId
  <2>2. q = HandleSignaling(p, rx)
    BY <1>5, <2>1 DEF Handle
  <2> HIDE DEF q
  <2> QED
    BY <1>5, <2>2, HandleSignalingType
<1> QED
  BY <1>1, <1>2, <1>3, <1>4, <1>5 DEF Received

-----------------------------------------------------------------------------
(* A turn up to the body of the port state.                                *)

\* The link check of singlePortLoop() re-initialises the port or leaves its
\* state machines alone.
LEMMA CheckLinkType ==
  ASSUME NEW p \in Port, RoleOK(p), NEW up \in BOOLEAN
  PROVE  CheckLink(p, up) \in Port /\ RoleOK(CheckLink(p, up))
<1> DEFINE l == [p EXCEPT !.linkUP = up]
           i == DoInit(ToState(l, "INITIALIZING"))
           c == IF i.wrConfig = "WR_S_ONLY" THEN ClearForeignMasters(i) ELSE i
           r == [c EXCEPT !.doRestart = FALSE]
<1>1. CheckLink(p, up) \in {r, l, ClearForeignMasters(l)}
  BY DEF CheckLink
<1> HIDE DEF l, i, c, r
<1>2. l \in Port
  BY BooleanUpdate DEF l
<1>3. SameMachine(l, p)
  BY DEF l, SameMachine, SameRole, Port
<1>4. i \in Port /\ RoleOK(i)
  BY <1>2, ToStateType, DoInitType DEF i, PortState
<1>5. c \in Port /\ RoleOK(c)
  BY <1>4, ClearForeignMastersType, SameMachineRole DEF c
<1>6. r \in Port
  BY <1>5, BooleanUpdate DEF r
<1>7. SameMachine(r, c)
  BY <1>5 DEF r, SameMachine, SameRole, Port
<1> QED
  BY <1>1, <1>2, <1>3, <1>5, <1>6, <1>7, ClearForeignMastersType, SameMachineRole

\* The state decision gives a slave role before it starts the WR FSM.
LEMMA DecideType ==
  ASSUME NEW p \in Port, RoleOK(p)
  PROVE  Decide(p) \in Port /\ RoleOK(Decide(p))
<1> DEFINE u == [p EXCEPT !.record_update = FALSE]
           q == Bmc(u)
           s == RecommendedState(p)
           m == [q EXCEPT !.wrMode = "WR_SLAVE"]
           o == [m EXCEPT !.wrModeON = FALSE]
           d == Decide(p)
<1> SUFFICES ASSUME StateDecisionEvent(p)
             PROVE  d \in Port /\ RoleOK(d)
  BY DEF Decide
<1>1. d \in {q, IF s = "SLAVE" THEN ToState(o, "UNCALIBRATED") ELSE ToState(q, s)}
      \/ (p.portState = "SLAVE" /\ s = "SLAVE" /\ d = ToState(q, "UNCALIBRATED"))
  <2>1. q.portState = u.portState /\ u.portState = p.portState
    <3>1. u.portState = p.portState
      BY DEF Port
    <3>2. q.portState = u.portState
      BY M1Type, S1Type, BooleanUpdate DEF Bmc
    <3> QED
      BY <3>1, <3>2
  <2> QED
    BY <2>1 DEF Decide, SynchronizationFault
<1> HIDE DEF u, q, m, o, d
<1>2. p.wrPortState = "IDLE" /\ p.portState # "UNCALIBRATED"
  BY DEF StateDecisionEvent
<1>3. u \in Port
  BY BooleanUpdate DEF u
<1>4. /\ u.wrPortState = "IDLE" /\ u.portState = p.portState
      /\ u.wrConfig = p.wrConfig
  BY <1>2 DEF u, Port
<1>5. /\ q \in Port /\ q.wrPortState = "IDLE" /\ q.portState = p.portState
      /\ s = "SLAVE" => q.wrSlaveRole = "PRIMARY_SLAVE"
  BY <1>3, <1>4, M1Type, S1Type DEF q, Bmc, RecommendedState
<1>6. s \in PortState /\ s # "UNCALIBRATED"
  BY DEF RecommendedState, PortState
<1>7. m \in Port
  BY <1>5, StateUpdate DEF m, WrMode
<1>8. o \in Port
  BY <1>7, BooleanUpdate DEF o
<1>9. o.wrPortState = "IDLE" /\ o.wrSlaveRole = q.wrSlaveRole
  BY <1>5 DEF o, m, Port
<1> HIDE DEF s
<1>10. RoleOK(q)
  BY <1>2, <1>5, RunningRole
<1>11. s = "SLAVE" =>
         /\ ToState(o, "UNCALIBRATED") \in Port /\ RoleOK(ToState(o, "UNCALIBRATED"))
         /\ ToState(q, "UNCALIBRATED") \in Port /\ RoleOK(ToState(q, "UNCALIBRATED"))
  BY <1>5, <1>8, <1>9, ToStateType DEF PortState
<1>12. ToState(q, s) \in Port /\ RoleOK(ToState(q, s))
  BY <1>5, <1>6, ToStateType
<1> QED
  BY <1>1, <1>5, <1>10, <1>11, <1>12

\* The port data set is RoleOK when doState() comes to the body of its state.
LEMMA ReadyType ==
  ASSUME NEW n \in Node, port[n] \in Port, RoleOK(port[n])
  PROVE  Ready(n) \in Port /\ RoleOK(Ready(n))
BY CheckLinkType, DecideType DEF Ready

-----------------------------------------------------------------------------
(* The end of the body of a WR state.                                      *)

\* wrTimerExpired(), retries used up: the WR FSM is idle before the PTP state
\* changes, so that toState() does not refuse.
LEMMA GiveUpType ==
  ASSUME NEW p \in Port
  PROVE  GiveUp(p) \in Port /\ RoleOK(GiveUp(p))
<1> DEFINE f == [p EXCEPT !.wrModeON = FALSE]
           q == ToWRState(f, "IDLE", 0)
           s == IF DisableFallback THEN "DISABLED"
                ELSE IF p.wrMode = "WR_MASTER" THEN "MASTER" ELSE "SLAVE"
           t == ToState(q, s)
<1>1. s \in PortState /\ s # "UNCALIBRATED"
  BY DEF PortState
<1>2. GiveUp(p) = InitWrData(t, "INIT")
  BY DEF GiveUp
<1> HIDE DEF f, q, s, t
<1>3. f \in Port
  BY BooleanUpdate DEF f
<1>4. q \in Port /\ q.wrPortState = "IDLE"
  BY <1>3, ToWRStateType DEF q, WrState
<1>5. t \in Port /\ t.portState # "UNCALIBRATED"
  BY <1>1, <1>4, ToStateType DEF t
<1> QED
  BY <1>2, <1>5, InitWrDataType, InitWrDataFields, RunningRole

\* The tail of doWRState() leaves a RoleOK port.
LEMMA EndOfWRStateType ==
  ASSUME NEW p \in Port, Running(p) \/ RoleOK(p), NEW expired \in BOOLEAN, NEW hw \in Nat
  PROVE  EndOfWRState(p, expired, hw) \in Port /\ RoleOK(EndOfWRState(p, expired, hw))
<1> DEFINE r == ToWRState(p, p.wrPortState, hw)
           q == WrTimerExpired(p, expired, hw)
           e == [q EXCEPT !.msgTmpWrMessageID = "NULL_WR_TLV"]
<1>1. RoleOK(p)
  BY RunningRole
<1>2. p.wrPortState \in WrState
  BY PortFields
<1>3. p.wrPortState # "IDLE" => r \in Port /\ SameMachine(r, p)
  BY <1>2, ToWRStateType DEF SameMachine
<1>4. q \in {p, GiveUp(p)} \/ (p.wrPortState # "IDLE" /\ q = r)
  BY DEF WrTimerExpired
<1>5. EndOfWRState(p, expired, hw) = e
  BY DEF EndOfWRState
<1> HIDE DEF r, q, e
<1>6. q \in Port /\ RoleOK(q)
  BY <1>1, <1>3, <1>4, GiveUpType, SameMachineRole
<1>7. e \in Port
  BY <1>6, DataUpdate DEF e, SignalId
<1>8. SameMachine(e, q)
  BY <1>6 DEF e, SameMachine, SameRole, Port
<1> QED
  BY <1>5, <1>6, <1>7, <1>8, SameMachineRole

\* Going on to another WR state keeps the WR FSM driven.
LEMMA ToWRStateRunning ==
  ASSUME NEW p \in Port, Running(p), NEW s \in WrState \ {"IDLE"}, NEW hw \in Nat
  PROVE  ToWRState(p, s, hw) \in Port /\ Running(ToWRState(p, s, hw))
BY ToWRStateType DEF Running, Driven, SameRole

\* doWRState() is run for a driven WR FSM only.
LEMMA InWRStateRunning ==
  ASSUME NEW p, RoleOK(p), NEW s, s # "IDLE", InWRState(p, s)
  PROVE  Running(p)
BY DEF InWRState, RoleOK, Running

-----------------------------------------------------------------------------
(* The turns.                                                              *)

\* The invariant.
TypedAndDriven == TypeOK /\ RoleConsistency

\* What handle() finds: a frame that is there to be removed, or a fault counted.
LEMMA FramesType ==
  ASSUME TypeOK, NEW n \in Node, NEW rx \in Frames(n)
  PROVE  /\ rx \in Received
         /\ rx \in Message => chan[n] # <<>>
         /\ rx \in {RecvError, DelayResp} => faults < MaxFaults
<1>1. chan[n] \in Seq(Message)
  BY DEF TypeOK
<1>2. chan[n] # <<>> => Head(chan[n]) \in Message
  BY <1>1
<1>3. NoFrame \notin Message /\ RecvError \notin Message /\ DelayResp \notin Message
  BY DEF NoFrame, RecvError, DelayResp, Message, SignalId
<1>4. NoFrame # RecvError /\ NoFrame # DelayResp
  BY DEF NoFrame, RecvError, DelayResp
<1>5. \/ rx = NoFrame
      \/ rx = Head(chan[n]) /\ chan[n] # <<>>
      \/ rx \in {RecvError, DelayResp} /\ faults < MaxFaults
  BY DEF Frames
<1> QED
  BY <1>2, <1>3, <1>4, <1>5 DEF Received

\* A full socket buffer drops frames.
LEMMA DeliverType ==
  ASSUME NEW queue \in Seq(Message), NEW frames \in Seq(Message)
  PROVE  Deliver(queue, frames) \in Seq(Message) /\ Len(Deliver(queue, frames)) <= QueueCap
<1> DEFINE all == queue \o frames
<1>1. all \in Seq(Message)
  OBVIOUS
<1> HIDE DEF all
<1>2. QueueCap \in Nat
  BY BoundAssumption
<1>3. CASE Len(all) <= QueueCap
  BY <1>1, <1>3 DEF Deliver, all
<1>4. CASE ~(Len(all) <= QueueCap)
  <2>1. QueueCap <= Len(all) /\ Len(all) \in Nat
    BY <1>1, <1>2, <1>4
  <2>2. SubSeq(all, 1, QueueCap) \in Seq(Message) /\ Len(SubSeq(all, 1, QueueCap)) = QueueCap
    BY <1>1, <1>2, <2>1
  <2>3. Deliver(queue, frames) = SubSeq(all, 1, QueueCap)
    BY <1>4 DEF Deliver, all
  <2> QED
    BY <1>2, <2>2, <2>3
<1> QED
  BY <1>3, <1>4

\* Whatever body the turn runs, its end keeps the invariant.
LEMMA FinishType ==
  ASSUME TypedAndDriven, NEW n \in Node, NEW rx \in Frames(n),
         NEW p \in Port, RoleOK(p), Finish(n, rx, p)
  PROVE  TypedAndDriven'
<1> USE DEF TypedAndDriven
<1> DEFINE p1 == [p EXCEPT !.globalStateDecisionEvent = p.record_update]
           p2 == [p1 EXCEPT !.out = <<>>]
           p3 == [p2 EXCEPT !.fresh = FALSE]
<1>1. port' = [port EXCEPT ![n] = p3]
  BY DEF Finish
<1>2. chan' = [m \in Node |-> CASE m = n /\ rx \in Message -> Tail(chan[m])
                                [] m # n /\ cable -> Deliver(chan[m], p.out)
                                [] OTHER -> chan[m]]
  BY DEF Finish
<1>3. /\ faults' = IF rx \in {RecvError, DelayResp} THEN faults + 1 ELSE faults
      /\ cable' = cable
  BY DEF Finish
<1> HIDE DEF p1, p2, p3
<1>4. p.record_update \in BOOLEAN /\ p.out \in Seq(Message)
  BY PortFields
<1>5. p1 \in Port
  BY <1>4, BooleanUpdate DEF p1
<1>0. <<>> \in Seq(Message)
  OBVIOUS
<1>6. p2 \in Port
  BY <1>0, <1>5, DataUpdate DEF p2
<1>7. p3 \in Port
  BY <1>6, BooleanUpdate DEF p3
<1>8. SameMachine(p3, p) /\ p3.out = <<>> /\ ~p3.fresh
  BY DEF p1, p2, p3, SameMachine, SameRole, Port
<1>9. RoleOK(p3)
  BY <1>8, SameMachineRole
<1>10. port' \in [Node -> Port] /\ \A m \in Node : port'[m].out = <<>> /\ ~port'[m].fresh
  BY <1>1, <1>7, <1>8 DEF TypeOK
<1>11. \A m \in Node : RoleOK(port'[m])
  BY <1>1, <1>9 DEF TypeOK, RoleConsistency
<1>12. ASSUME NEW m \in Node
       PROVE  chan'[m] \in Seq(Message) /\ Len(chan'[m]) <= QueueCap
  <2>1. chan[m] \in Seq(Message) /\ Len(chan[m]) <= QueueCap /\ QueueCap \in Nat
    BY BoundAssumption DEF TypeOK
  <2>2. CASE m = n /\ rx \in Message
    <3>1. chan[m] # <<>>
      BY <2>2, FramesType
    <3>2. Tail(chan[m]) \in Seq(Message) /\ Len(Tail(chan[m])) <= QueueCap
      BY <2>1, <3>1
    <3> QED
      BY <1>2, <2>2, <3>2
  <2>3. CASE m # n /\ cable
    BY <1>2, <1>4, <2>1, <2>3, DeliverType
  <2>4. CASE ~(m = n /\ rx \in Message) /\ ~(m # n /\ cable)
    BY <1>2, <2>1, <2>4
  <2> QED
    BY <2>2, <2>3, <2>4
<1>13. chan' \in [Node -> Seq(Message)] /\ \A m \in Node : Len(chan'[m]) <= QueueCap
  <2>1. chan' = [m \in Node |-> chan'[m]]
    BY <1>2
  <2> QED
    BY <2>1, <1>12
<1>14. cable' \in BOOLEAN
  BY <1>3 DEF TypeOK
<1>15. faults' \in 0 .. MaxFaults
  BY <1>3, FramesType, BoundAssumption DEF TypeOK
<1> QED
  BY <1>10, <1>11, <1>13, <1>14, <1>15 DEF TypeOK, RoleConsistency

-----------------------------------------------------------------------------
(* One lemma for each body that doState() or doWRState() runs.             *)

\* handle() may find nothing.
LEMMA NoFrameFrames ==
  ASSUME NEW n \in Node
  PROVE  NoFrame \in Frames(n)
BY DEF Frames

\* singlePortLoop() without a link.
LEMMA LinkDownStep ==
  ASSUME TypedAndDriven, NEW n \in Node, LinkDown(n)
  PROVE  TypedAndDriven'
<1>1. port[n] \in Port /\ RoleOK(port[n])
  BY DEF TypedAndDriven, TypeOK, RoleConsistency
<1>2. CheckLink(port[n], FALSE) \in Port /\ RoleOK(CheckLink(port[n], FALSE))
  BY <1>1, CheckLinkType
<1> QED
  BY <1>2, FinishType, NoFrameFrames DEF LinkDown

\* PTP_INITIALIZING.
LEMMA InitializingStep ==
  ASSUME TypedAndDriven, NEW n \in Node, NEW p \in Port, RoleOK(p), Initializing(n, p)
  PROVE  TypedAndDriven'
BY DoInitType, FinishType, NoFrameFrames DEF Initializing

\* PTP_FAULTY, and PTP_UNCALIBRATED of a port that is not a WR slave.
LEMMA PassThroughStep ==
  ASSUME TypedAndDriven, NEW n \in Node, NEW p \in Port, RoleOK(p), PassThrough(n, p)
  PROVE  TypedAndDriven'
<1>1. CASE p.portState = "FAULTY"
  <2>1. ToState(p, "INITIALIZING") \in Port /\ RoleOK(ToState(p, "INITIALIZING"))
    BY ToStateType DEF PortState
  <2> QED
    BY <1>1, <2>1, FinishType, NoFrameFrames DEF PassThrough
<1>2. CASE p.portState = "UNCALIBRATED"
  <2> DEFINE q == [p EXCEPT !.msgTmpWrMessageID = "NULL_WR_TLV"]
  <2>1. ToState(p, "SLAVE") = p
    BY <1>2, ToStateType DEF PortState, RoleOK
  <2>2. Finish(n, NoFrame, q)
    BY <1>2, <2>1 DEF PassThrough
  <2> HIDE DEF q
  <2>3. q \in Port
    BY DataUpdate DEF q, SignalId
  <2>4. SameMachine(q, p)
    BY DEF q, SameMachine, SameRole, Port
  <2> QED
    BY <2>2, <2>3, <2>4, SameMachineRole, FinishType, NoFrameFrames
<1> QED
  BY <1>1, <1>2 DEF PassThrough

\* PTP_DISABLED.
LEMMA DisabledStep ==
  ASSUME TypedAndDriven, NEW n \in Node, NEW p \in Port, RoleOK(p),
         NEW rx \in Frames(n), Disabled(n, p, rx)
  PROVE  TypedAndDriven'
<1>1. rx \in Received
  BY FramesType DEF TypedAndDriven
<1>2. Handle(p, rx) \in Port /\ RoleOK(Handle(p, rx))
  BY <1>1, HandleType
<1> QED
  BY <1>2, FinishType DEF Disabled

\* PTP_LISTENING of a master-only port.
LEMMA ListeningMasterStep ==
  ASSUME TypedAndDriven, NEW n \in Node, NEW p \in Port, RoleOK(p), ListeningMaster(n, p)
  PROVE  TypedAndDriven'
<1>1. p.wrPortState = "IDLE"
  BY DEF ListeningMaster, RoleOK, Driven
<1>2. M1(p) \in Port /\ M1(p).wrPortState = "IDLE"
  BY <1>1, M1Type
<1>3. ToState(M1(p), "MASTER") \in Port /\ RoleOK(ToState(M1(p), "MASTER"))
  BY <1>2, ToStateType DEF PortState
<1> QED
  BY <1>3, FinishType, NoFrameFrames DEF ListeningMaster

\* The announce receipt timeout finds the WR FSM idle.
LEMMA AnnounceReceiptTimeoutType ==
  ASSUME NEW p \in Port, p.wrPortState = "IDLE"
  PROVE  AnnounceReceiptTimeout(p) \in Port /\ RoleOK(AnnounceReceiptTimeout(p))
<1> DEFINE p1 == [p EXCEPT !.number_foreign_records = 0]
           p2 == [p1 EXCEPT !.foreign_record_i = 0]
           p3 == [p2 EXCEPT !.wrMode = "NON_WR"]
           p4 == [p3 EXCEPT !.wrModeON = FALSE]
           q == [p EXCEPT !.number_foreign_records = 0, !.foreign_record_i = 0,
                          !.wrMode = "NON_WR", !.wrModeON = FALSE]
<1>1. AnnounceReceiptTimeout(p) = IF q.portState = "LISTENING" THEN q
                                  ELSE ToState(q, "LISTENING")
  BY DEF AnnounceReceiptTimeout
<1>2. q = p4
  OBVIOUS
<1> HIDE DEF p1, p2, p3, p4, q
<1>3. p1 \in Port
  BY DataUpdate DEF p1
<1>4. 0 \in RecordIndex
  BY TableAssumption DEF RecordIndex
<1>5. p2 \in Port
  BY <1>3, <1>4, DataUpdate DEF p2
<1>6. p3 \in Port
  BY <1>5, StateUpdate DEF p3, WrMode
<1>7. p4 \in Port
  BY <1>6, BooleanUpdate DEF p4
<1>8. p4.wrPortState = "IDLE"
  BY DEF p1, p2, p3, p4, Port
<1>9. p4.portState = "LISTENING" => RoleOK(p4)
  BY <1>8, RunningRole
<1>10. ToState(p4, "LISTENING") \in Port /\ RoleOK(ToState(p4, "LISTENING"))
  BY <1>7, <1>8, ToStateType DEF PortState
<1> QED
  BY <1>1, <1>2, <1>7, <1>9, <1>10

\* PTP_LISTENING and PTP_SLAVE of a slave-only port.
LEMMA ListeningOrSlaveStep ==
  ASSUME TypedAndDriven, NEW n \in Node, NEW p \in Port, RoleOK(p),
         NEW rx \in Frames(n), NEW expired \in BOOLEAN, ListeningOrSlave(n, p, rx, expired)
  PROVE  TypedAndDriven'
<1> DEFINE q == Handle(p, rx)
<1>1. rx \in Received
  BY FramesType DEF TypedAndDriven
<1>2. p.wrPortState = "IDLE" /\ p.portState # "MASTER"
  BY DEF ListeningOrSlave, RoleOK, Driven
<1>3. q \in Port /\ RoleOK(q) /\ q.wrPortState = "IDLE"
  BY <1>1, <1>2, HandleType
<1>4. Finish(n, rx, IF expired THEN AnnounceReceiptTimeout(q) ELSE q)
  BY DEF ListeningOrSlave
<1> HIDE DEF q
<1> QED
  BY <1>3, <1>4, AnnounceReceiptTimeoutType, FinishType

\* PTP_MASTER without a running WR FSM.
LEMMA MasterStep ==
  ASSUME TypedAndDriven, NEW n \in Node, NEW p \in Port, RoleOK(p),
         NEW rx \in Frames(n), NEW announcing \in BOOLEAN, Master(n, p, rx, announcing)
  PROVE  TypedAndDriven'
<1> DEFINE q == Handle(p, rx)
           a == Send(q, "ANNOUNCE", q.wrModeON)
<1>1. rx \in Received
  BY FramesType DEF TypedAndDriven
<1>2. q \in Port /\ RoleOK(q)
  BY <1>1, HandleType
<1>3. Finish(n, rx, IF announcing THEN a ELSE q)
  BY DEF Master
<1> HIDE DEF q, a
<1>4. q.wrModeON \in BOOLEAN
  BY <1>2, PortFields
<1>5. a \in Port
  BY <1>2, <1>4, SendType DEF a
<1>6. SameMachine(a, q)
  BY <1>2 DEF a, Send, Port, SameMachine, SameRole
<1> QED
  BY <1>2, <1>3, <1>5, <1>6, SameMachineRole, FinishType

-----------------------------------------------------------------------------
(* The bodies of the WR states.                                            *)

\* WRS_PRESENT.
LEMMA WrPresentStep ==
  ASSUME TypedAndDriven, NEW n \in Node, NEW p \in Port, RoleOK(p),
         NEW rx \in Frames(n), NEW expired \in BOOLEAN, NEW hw \in Nat, NEW hwAgain \in Nat,
         WrPresent(n, p, rx, expired, hw, hwAgain)
  PROVE  TypedAndDriven'
<1> DEFINE q == Handle(p, rx)
<1>1. rx \in Received
  BY FramesType DEF TypedAndDriven
<1>2. Running(p)
  BY InWRStateRunning DEF WrPresent
<1>3. q \in Port /\ Running(q)
  BY <1>1, <1>2, HandleType
<1>4. PICK r \in {q, ToWRState(q, "S_LOCK", hw)} :
        Finish(n, rx, EndOfWRState(r, expired, hwAgain))
  BY DEF WrPresent
<1> HIDE DEF q
<1>5. r \in Port /\ Running(r)
  BY <1>3, <1>4, ToWRStateRunning DEF WrState
<1>6. EndOfWRState(r, expired, hwAgain) \in Port /\ RoleOK(EndOfWRState(r, expired, hwAgain))
  BY <1>5, EndOfWRStateType
<1> QED
  BY <1>4, <1>6, FinishType

\* WRS_M_LOCK.
LEMMA WrMLockStep ==
  ASSUME TypedAndDriven, NEW n \in Node, NEW p \in Port, RoleOK(p),
         NEW rx \in Frames(n), NEW expired \in BOOLEAN, NEW hw \in Nat, NEW hwAgain \in Nat,
         WrMLock(n, p, rx, expired, hw, hwAgain)
  PROVE  TypedAndDriven'
<1> DEFINE q == Handle(p, rx)
<1>1. rx \in Received
  BY FramesType DEF TypedAndDriven
<1>2. Running(p)
  BY InWRStateRunning DEF WrMLock
<1>3. q \in Port /\ Running(q)
  BY <1>1, <1>2, HandleType
<1>4. PICK r \in {q, ToWRState(q, "CALIBRATION", hw)} :
        Finish(n, rx, EndOfWRState(r, expired, hwAgain))
  BY DEF WrMLock
<1> HIDE DEF q
<1>5. r \in Port /\ Running(r)
  BY <1>3, <1>4, ToWRStateRunning DEF WrState
<1>6. EndOfWRState(r, expired, hwAgain) \in Port /\ RoleOK(EndOfWRState(r, expired, hwAgain))
  BY <1>5, EndOfWRStateType
<1> QED
  BY <1>4, <1>6, FinishType

\* WRS_LOCKED.
LEMMA WrLockedStep ==
  ASSUME TypedAndDriven, NEW n \in Node, NEW p \in Port, RoleOK(p),
         NEW rx \in Frames(n), NEW expired \in BOOLEAN, NEW hw \in Nat, NEW hwAgain \in Nat,
         WrLocked(n, p, rx, expired, hw, hwAgain)
  PROVE  TypedAndDriven'
<1> DEFINE q == Handle(p, rx)
<1>1. rx \in Received
  BY FramesType DEF TypedAndDriven
<1>2. Running(p)
  BY InWRStateRunning DEF WrLocked
<1>3. q \in Port /\ Running(q)
  BY <1>1, <1>2, HandleType
<1>4. PICK r \in {q, ToWRState(q, "RESP_CALIB_REQ", hw)} :
        Finish(n, rx, EndOfWRState(r, expired, hwAgain))
  BY DEF WrLocked
<1> HIDE DEF q
<1>5. r \in Port /\ Running(r)
  BY <1>3, <1>4, ToWRStateRunning DEF WrState
<1>6. EndOfWRState(r, expired, hwAgain) \in Port /\ RoleOK(EndOfWRState(r, expired, hwAgain))
  BY <1>5, EndOfWRStateType
<1> QED
  BY <1>4, <1>6, FinishType

\* WRS_CALIBRATED.
LEMMA WrCalibratedStep ==
  ASSUME TypedAndDriven, NEW n \in Node, NEW p \in Port, RoleOK(p),
         NEW rx \in Frames(n), NEW expired \in BOOLEAN, NEW hw \in Nat, NEW hwAgain \in Nat,
         WrCalibrated(n, p, rx, expired, hw, hwAgain)
  PROVE  TypedAndDriven'
<1> DEFINE q == Handle(p, rx)
<1>1. rx \in Received
  BY FramesType DEF TypedAndDriven
<1>2. Running(p)
  BY InWRStateRunning DEF WrCalibrated
<1>3. q \in Port /\ Running(q)
  BY <1>1, <1>2, HandleType
<1>4. PICK r \in {q, ToWRState(q, "RESP_CALIB_REQ", hw), ToWRState(q, "WR_LINK_ON", 0)} :
        Finish(n, rx, EndOfWRState(r, expired, hwAgain))
  BY DEF WrCalibrated
<1> HIDE DEF q
<1>5. r \in Port /\ Running(r)
  BY <1>3, <1>4, ToWRStateRunning DEF WrState
<1>6. EndOfWRState(r, expired, hwAgain) \in Port /\ RoleOK(EndOfWRState(r, expired, hwAgain))
  BY <1>5, EndOfWRStateType
<1> QED
  BY <1>4, <1>6, FinishType

\* WRS_S_LOCK.
LEMMA WrSLockStep ==
  ASSUME TypedAndDriven, NEW n \in Node, NEW p \in Port, RoleOK(p),
         NEW expired \in BOOLEAN, NEW hw \in Nat, NEW hwAgain \in Nat,
         WrSLock(n, p, expired, hw, hwAgain)
  PROVE  TypedAndDriven'
<1> DEFINE done == p.wrSubstate + hw
           d == [p EXCEPT !.wrSubstate = done]
<1>1. Running(p)
  BY InWRStateRunning DEF WrSLock
<1>2. p.wrSubstate \in WrSubstate
  BY PortFields
<1>3. PICK r : /\ r = p \/ r = ToWRState(p, "LOCKED", 0) \/ (done < 3 /\ r = d)
               /\ Finish(n, NoFrame, EndOfWRState(r, expired, hwAgain))
  <2>1. done < 3 \/ done >= 3
    BY <1>2 DEF WrSubstate
  <2> QED
    BY <2>1 DEF WrSLock
<1>4. done < 3 => done \in WrSubstate
  BY <1>2 DEF WrSubstate
<1> HIDE DEF done, d
<1>5. done < 3 => d \in Port
  BY <1>4, StateUpdate DEF d
<1>6. SameMachine(d, p)
  BY DEF d, SameMachine, SameRole, Port
<1>7. r \in Port /\ Running(r)
  BY <1>1, <1>3, <1>5, <1>6, SameMachineRole, ToWRStateRunning DEF WrState
<1>8. EndOfWRState(r, expired, hwAgain) \in Port /\ RoleOK(EndOfWRState(r, expired, hwAgain))
  BY <1>7, EndOfWRStateType
<1> QED
  BY <1>3, <1>8, FinishType, NoFrameFrames

\* The substates of WRS_CALIBRATION stay between 0 and 8.
LEMMA CalibrateType ==
  ASSUME NEW p \in Port, NEW hw \in Nat
  PROVE  Calibrate(p, hw) \in Port /\ SameMachine(Calibrate(p, hw), p)
<1> DEFINE done == AtMost(p.wrSubstate + hw, 8)
           pattern == IF p.wrSubstate <= 4 /\ done >= 5 THEN FALSE
                      ELSE p.calibrationPattern \/ (p.wrSubstate = 0 /\ done > 0)
           d == [p EXCEPT !.wrSubstate = done]
           e == [d EXCEPT !.calibrationPattern = pattern]
<1>1. p.wrSubstate \in WrSubstate
  BY PortFields
<1>2. done \in WrSubstate
  BY <1>1 DEF WrSubstate, AtMost
<1>3. pattern \in BOOLEAN
  OBVIOUS
<1>4. Calibrate(p, hw) = e
  BY DEF Calibrate
<1> HIDE DEF done, pattern, d, e
<1>5. d \in Port
  BY <1>2, StateUpdate DEF d
<1>6. e \in Port
  BY <1>3, <1>5, BooleanUpdate DEF e
<1>7. SameMachine(e, p)
  BY DEF d, e, SameMachine, SameRole, Port
<1> QED
  BY <1>4, <1>6, <1>7

\* WRS_CALIBRATION.
LEMMA WrCalibrationStep ==
  ASSUME TypedAndDriven, NEW n \in Node, NEW p \in Port, RoleOK(p),
         NEW expired \in BOOLEAN, NEW hw \in Nat, NEW hwAgain \in Nat,
         WrCalibration(n, p, expired, hw, hwAgain)
  PROVE  TypedAndDriven'
<1> DEFINE q == Calibrate(p, hw)
           s == Send(q, "CALIBRATED", FALSE)
           w == ToWRState(s, "CALIBRATED", 0)
           c == [w EXCEPT !.calibrated = TRUE]
<1>1. PICK r \in {q, c} : Finish(n, NoFrame, EndOfWRState(r, expired, hwAgain))
  BY DEF WrCalibration
<1>2. Running(p)
  BY InWRStateRunning DEF WrCalibration
<1> HIDE DEF q, s, w, c
<1>3. q \in Port /\ Running(q)
  BY <1>2, CalibrateType, SameMachineRole DEF q
<1>4. s \in Port
  BY <1>3, SendType DEF s, SignalId
<1>5. Running(s)
  <2>1. SameMachine(s, q)
    <3>1. /\ s.portState = q.portState /\ s.wrPortState = q.wrPortState
          /\ s.wrMode = q.wrMode /\ s.wrSlaveRole = q.wrSlaveRole
      BY <1>3 DEF s, Send, Port
    <3> QED
      BY <3>1 DEF SameMachine, SameRole
  <2> QED
    BY <1>3, <2>1, SameMachineRole
<1>6. w \in Port /\ Running(w)
  BY <1>4, <1>5, ToWRStateRunning DEF w, WrState
<1>7. c \in Port
  BY <1>6, BooleanUpdate DEF c
<1>8. SameMachine(c, w)
  BY <1>6 DEF c, SameMachine, SameRole, Port
<1>9. r \in Port /\ Running(r)
  BY <1>1, <1>3, <1>6, <1>7, <1>8, SameMachineRole
<1>10. EndOfWRState(r, expired, hwAgain) \in Port /\ RoleOK(EndOfWRState(r, expired, hwAgain))
  BY <1>9, EndOfWRStateType
<1> QED
  BY <1>1, <1>10, FinishType, NoFrameFrames

\* The last substates of WRS_RESP_CALIB_REQ.
LEMMA AfterCalibratedType ==
  ASSUME NEW p \in Port, Running(p), NEW hw \in Nat
  PROVE  AfterCalibrated(p, hw) \in Port /\ Running(AfterCalibrated(p, hw))
<1> DEFINE next == IF p.wrMode = "WR_MASTER" THEN "WR_LINK_ON" ELSE "CALIBRATION"
           o == [p EXCEPT !.calibrationPattern = FALSE]
<1>1. next \in WrState \ {"IDLE"}
  BY DEF WrState
<1>2. \/ AfterCalibrated(p, hw) = ToWRState(p, next, hw)
      \/ hw > 0 /\ AfterCalibrated(p, hw) = ToWRState(o, next, hw - 1)
      \/ AfterCalibrated(p, hw) = p
  BY DEF AfterCalibrated
<1> HIDE DEF next, o
<1>3. o \in Port
  BY BooleanUpdate DEF o
<1>4. Running(o)
  <2>1. SameMachine(o, p)
    BY DEF o, SameMachine, SameRole, Port
  <2> QED
    BY <2>1, SameMachineRole
<1>5. hw > 0 => hw - 1 \in Nat
  OBVIOUS
<1> QED
  BY <1>1, <1>2, <1>3, <1>4, <1>5, ToWRStateRunning

\* WRS_RESP_CALIB_REQ, when a frame is read.
LEMMA WrRespCalibReqStep ==
  ASSUME TypedAndDriven, NEW n \in Node, NEW p \in Port, RoleOK(p),
         NEW rx \in Frames(n), NEW expired \in BOOLEAN, NEW hw \in Nat, NEW hwAgain \in Nat,
         WrRespCalibReq(n, p, rx, expired, hw, hwAgain)
  PROVE  TypedAndDriven'
<1> DEFINE started == (p.wrSubstate = 0)
           t == ToSubstate(p, "RESP_CALIB_REQ", 1)
           waiting == SendPattern(t, started)
           left == IF p.wrSubstate = 0 THEN hw - 1 ELSE hw
           q == Handle(waiting, rx)
           i == IF q.otherNodeCalSendPattern THEN 2 ELSE 3
           u == ToSubstate(q, q.wrPortState, i)
<1>1. PICK r \in {q, AfterCalibrated(u, left)} :
        Finish(n, rx, EndOfWRState(r, expired, hwAgain))
  BY DEF WrRespCalibReq
<1>2. Running(p)
  BY InWRStateRunning DEF WrRespCalibReq
<1>3. left \in Nat
  BY DEF WrRespCalibReq
<1>4. started \in BOOLEAN
  OBVIOUS
<1>5. 1 \in WrSubstate /\ i \in WrSubstate
  BY DEF WrSubstate
<1> HIDE DEF started, t, waiting, left, q, i, u
<1>6. t \in Port /\ Running(t)
  <2>1. "RESP_CALIB_REQ" \in WrState
    BY DEF WrState
  <2>2. t \in Port /\ SameRole(t, p) /\ t.wrPortState = "RESP_CALIB_REQ"
    BY <1>5, <2>1, ToSubstateType DEF t
  <2> QED
    BY <1>2, <2>2 DEF Running, Driven, SameRole
<1>7. waiting \in Port /\ Running(waiting)
  BY <1>4, <1>6, SendPatternType, SameMachineRole DEF waiting, SameMachine
<1>8. q \in Port /\ Running(q)
  BY <1>7, FramesType, HandleType DEF q, TypedAndDriven
<1>9. q.wrPortState \in WrState
  BY <1>8, PortFields
<1>10. u \in Port /\ SameMachine(u, q)
  BY <1>5, <1>8, <1>9, ToSubstateType DEF u, SameMachine
<1>11. Running(u)
  BY <1>8, <1>10, SameMachineRole
<1>12. r \in Port /\ Running(r)
  BY <1>1, <1>3, <1>8, <1>10, <1>11, AfterCalibratedType
<1>13. EndOfWRState(r, expired, hwAgain) \in Port /\ RoleOK(EndOfWRState(r, expired, hwAgain))
  BY <1>12, EndOfWRStateType
<1> QED
  BY <1>1, <1>13, FinishType

\* WRS_RESP_CALIB_REQ, when the hardware keeps the port from reading.
LEMMA WrRespCalibReqNoFrameStep ==
  ASSUME TypedAndDriven, NEW n \in Node, NEW p \in Port, RoleOK(p),
         NEW expired \in BOOLEAN, NEW hw \in Nat, NEW hwAgain \in Nat,
         WrRespCalibReqNoFrame(n, p, expired, hw, hwAgain)
  PROVE  TypedAndDriven'
<1> DEFINE q == AfterCalibrated(p, hw)
<1>1. Running(p)
  BY InWRStateRunning DEF WrRespCalibReqNoFrame
<1>2. q \in Port /\ Running(q)
  BY <1>1, AfterCalibratedType
<1>3. Finish(n, NoFrame, EndOfWRState(q, expired, hwAgain))
  BY DEF WrRespCalibReqNoFrame
<1> HIDE DEF q
<1>4. EndOfWRState(q, expired, hwAgain) \in Port /\ RoleOK(EndOfWRState(q, expired, hwAgain))
  BY <1>2, EndOfWRStateType
<1> QED
  BY <1>3, <1>4, FinishType, NoFrameFrames

\* WRS_WR_LINK_ON.
LEMMA WrLinkOnStep ==
  ASSUME TypedAndDriven, NEW n \in Node, NEW p \in Port, RoleOK(p), WrLinkOn(n, p)
  PROVE  TypedAndDriven'
<1> DEFINE q == ToWRState(p, "IDLE", 0)
           s == IF p.wrMode = "WR_SLAVE" THEN "SLAVE" ELSE "MASTER"
           r == ToState(q, s)
<1>1. Finish(n, NoFrame, EndOfWRState(r, FALSE, 0))
  BY DEF WrLinkOn
<1>2. s \in PortState /\ s # "UNCALIBRATED"
  BY DEF PortState
<1> HIDE DEF q, s, r
<1>3. q \in Port /\ q.wrPortState = "IDLE"
  BY ToWRStateType DEF q, WrState
<1>4. r \in Port /\ RoleOK(r)
  BY <1>2, <1>3, ToStateType DEF r
<1>5. EndOfWRState(r, FALSE, 0) \in Port /\ RoleOK(EndOfWRState(r, FALSE, 0))
  BY <1>4, EndOfWRStateType
<1> QED
  BY <1>1, <1>5, FinishType, NoFrameFrames

-----------------------------------------------------------------------------
(* The other steps.                                                        *)

\* The memory of a daemon that has just been started is a port data set; the
\* WR FSM is in WRS_PRESENT (the first state of the enumeration, as calloc()
\* leaves it), but the port is still to be initialised.
LEMMA FreshPortType ==
  ASSUME NEW n \in Node, NEW event \in EventGarbage
  PROVE  /\ FreshPort(n, event) \in Port
         /\ RoleOK(FreshPort(n, event))
         /\ FreshPort(n, event).out = <<>>
         /\ ~FreshPort(n, event).fresh
<1>1. event \in BOOLEAN
  BY OptionAssumption
<1>2. /\ 0 \in WrSubstate /\ 0 \in UInteger8 /\ 0 \in RecordIndex
      /\ <<>> \in Seq(Message)
  BY TableAssumption DEF WrSubstate, UInteger8, RecordIndex
<1>3. FreshPort(n, event) \in Port
  BY <1>1, <1>2 DEF FreshPort, Port, PortState, WrState, WrMode, WrConfig, WrRole, SignalId
<1>4. RoleOK(FreshPort(n, event))
  BY DEF FreshPort, RoleOK
<1> QED
  BY <1>3, <1>4 DEF FreshPort

\* The daemons start with the invariant.
LEMMA InitType ==
  ASSUME Init
  PROVE  TypedAndDriven
<1>1. PICK event \in [Node -> EventGarbage] :
        port = [n \in Node |-> FreshPort(n, event[n])]
  BY DEF Init
<1>2. \A n \in Node : event[n] \in EventGarbage
  BY <1>1
<1>3. /\ port \in [Node -> Port]
      /\ \A n \in Node : RoleOK(port[n]) /\ port[n].out = <<>> /\ ~port[n].fresh
  BY <1>1, <1>2, FreshPortType
<1>4. \A n \in Node : chan[n] \in Seq(Message) /\ Len(chan[n]) <= QueueCap
  BY BoundAssumption DEF Init
<1>5. chan \in [Node -> Seq(Message)]
  BY DEF Init
<1>6. cable \in BOOLEAN /\ faults \in 0 .. MaxFaults
  BY BoundAssumption DEF Init
<1> QED
  BY <1>3, <1>4, <1>5, <1>6 DEF TypedAndDriven, TypeOK, RoleConsistency

\* A daemon that is started again has the memory and the sockets of a new one.
LEMMA RestartStep ==
  ASSUME TypedAndDriven, NEW n \in Node, Restart(n)
  PROVE  TypedAndDriven'
<1> USE DEF TypedAndDriven
<1>1. PICK event \in EventGarbage : port' = [port EXCEPT ![n] = FreshPort(n, event)]
  BY DEF Restart
<1>2. /\ port' \in [Node -> Port]
      /\ \A m \in Node : RoleOK(port'[m]) /\ port'[m].out = <<>> /\ ~port'[m].fresh
  BY <1>1, FreshPortType DEF TypeOK, RoleConsistency
<1>3. /\ chan' \in [Node -> Seq(Message)]
      /\ \A m \in Node : Len(chan'[m]) <= QueueCap
  <2>1. chan' = [chan EXCEPT ![n] = <<>>] /\ <<>> \in Seq(Message) /\ Len(<<>>) <= QueueCap
    BY BoundAssumption DEF Restart
  <2> QED
    BY <2>1 DEF TypeOK
<1>4. cable' \in BOOLEAN /\ faults' \in 0 .. MaxFaults
  BY BoundAssumption DEF TypeOK, Restart
<1> QED
  BY <1>2, <1>3, <1>4 DEF TypeOK, RoleConsistency

\* The cable touches no port data set.
LEMMA CableStep ==
  ASSUME TypedAndDriven, Unplug \/ Plug
  PROVE  TypedAndDriven'
<1>1. port' = port /\ chan' = chan /\ cable' \in BOOLEAN
  BY DEF Unplug, Plug
<1>2. faults' \in 0 .. MaxFaults
  BY BoundAssumption DEF TypedAndDriven, TypeOK, Unplug, Plug
<1> QED
  BY <1>1, <1>2 DEF TypedAndDriven, TypeOK, RoleConsistency

\* A frame lost leaves a shorter queue of frames.
LEMMA LoseFrameStep ==
  ASSUME TypedAndDriven, NEW n \in Node, LoseFrame(n)
  PROVE  TypedAndDriven'
<1> USE DEF TypedAndDriven
<1>1. PICK i \in 1 .. Len(chan[n]) :
        chan' = [chan EXCEPT ![n] =
                   SubSeq(chan[n], 1, i - 1) \o SubSeq(chan[n], i + 1, Len(chan[n]))]
  BY DEF LoseFrame
<1> DEFINE c == chan[n]
           a == SubSeq(c, 1, i - 1)
           b == SubSeq(c, i + 1, Len(c))
<1>2. c \in Seq(Message) /\ Len(c) \in Nat /\ Len(c) <= QueueCap /\ QueueCap \in Nat
  BY BoundAssumption DEF TypeOK
<1>3. a \in Seq(Message) /\ Len(a) = i - 1
  BY <1>2
<1>4. b \in Seq(Message) /\ Len(b) = Len(c) - i
  BY <1>2
<1> HIDE DEF a, b
<1>5. a \o b \in Seq(Message) /\ Len(a \o b) <= QueueCap
  BY <1>2, <1>3, <1>4
<1>6. chan' = [chan EXCEPT ![n] = a \o b]
  BY <1>1 DEF a, b
<1>7. /\ chan' \in [Node -> Seq(Message)]
      /\ \A m \in Node : Len(chan'[m]) <= QueueCap
  BY <1>5, <1>6 DEF TypeOK
<1>8. port' = port /\ cable' = cable /\ faults' = faults
  BY DEF LoseFrame
<1> QED
  BY <1>7, <1>8 DEF TypeOK, RoleConsistency

\* The hardware answers are numbers of calls.
LEMMA HwAnswersType == HwAnswers \subseteq Nat /\ HwAnswersAgain \subseteq Nat
BY DEF HwAnswers, HwAnswersAgain

\* A turn of the main loop, whatever the timers, the hardware and the network
\* answer: singlePortLoop() and then one body of doState() or doWRState().
LEMMA LoopTurnStep ==
  ASSUME TypedAndDriven, NEW n \in Node, LoopTurn(n)
  PROVE  TypedAndDriven'
<1> DEFINE p == Ready(n)
<1>1. p \in Port /\ RoleOK(p)
  BY ReadyType DEF TypedAndDriven, TypeOK, RoleConsistency
<1> HIDE DEF p
<1>2. CASE LinkDown(n)
  BY <1>2, LinkDownStep
<1>3. CASE PlainTurn(n)
  <2>1. \/ Initializing(n, p) \/ PassThrough(n, p)
        \/ ListeningMaster(n, p) \/ WrLinkOn(n, p)
    BY <1>3 DEF PlainTurn, p
  <2> QED
    BY <1>1, <2>1, InitializingStep, PassThroughStep, ListeningMasterStep, WrLinkOnStep
<1>4. ASSUME NEW expired \in BOOLEAN, NEW hw \in HwAnswers, NEW hwAgain \in HwAnswersAgain,
             HardwareTurn(n, expired, hw, hwAgain)
      PROVE  TypedAndDriven'
  <2>1. hw \in Nat /\ hwAgain \in Nat
    BY HwAnswersType
  <2>2. \/ WrSLock(n, p, expired, hw, hwAgain)
        \/ WrCalibration(n, p, expired, hw, hwAgain)
        \/ WrRespCalibReqNoFrame(n, p, expired, hw, hwAgain)
    BY <1>4 DEF HardwareTurn, p
  <2> QED
    BY <1>1, <2>1, <2>2, WrSLockStep, WrCalibrationStep, WrRespCalibReqNoFrameStep
<1>5. ASSUME NEW expired \in BOOLEAN, NEW hw \in HwAnswers, NEW hwAgain \in HwAnswersAgain,
             NEW rx \in Frames(n), FrameTurn(n, rx, expired, hw, hwAgain)
      PROVE  TypedAndDriven'
  <2>1. hw \in Nat /\ hwAgain \in Nat
    BY HwAnswersType
  <2>2. \/ Disabled(n, p, rx)
        \/ ListeningOrSlave(n, p, rx, expired)
        \/ Master(n, p, rx, expired)
        \/ WrPresent(n, p, rx, expired, hw, hwAgain)
        \/ WrMLock(n, p, rx, expired, hw, hwAgain)
        \/ WrLocked(n, p, rx, expired, hw, hwAgain)
        \/ WrCalibrated(n, p, rx, expired, hw, hwAgain)
        \/ WrRespCalibReq(n, p, rx, expired, hw, hwAgain)
    BY <1>5 DEF FrameTurn, p
  <2> QED
    BY <1>1, <2>1, <2>2, DisabledStep, ListeningOrSlaveStep, MasterStep, WrPresentStep,
       WrMLockStep, WrLockedStep, WrCalibratedStep, WrRespCalibReqStep
<1> QED
  BY <1>2, <1>3, <1>4, <1>5 DEF LoopTurn

\* Every step keeps the invariant.
LEMMA NextStep ==
  ASSUME TypedAndDriven, [Next]_vars
  PROVE  TypedAndDriven'
<1>1. CASE UNCHANGED vars
  BY <1>1 DEF vars, TypedAndDriven, TypeOK, RoleConsistency
<1>2. ASSUME NEW n \in Node, LoopTurn(n)
      PROVE  TypedAndDriven'
  BY <1>2, LoopTurnStep
<1>3. ASSUME NEW n \in Node, Restart(n)
      PROVE  TypedAndDriven'
  BY <1>3, RestartStep
<1>4. ASSUME NEW n \in Node, LoseFrame(n)
      PROVE  TypedAndDriven'
  BY <1>4, LoseFrameStep
<1>5. CASE Unplug \/ Plug
  BY <1>5, CableStep
<1> QED
  BY <1>1, <1>2, <1>3, <1>4, <1>5 DEF Next

-----------------------------------------------------------------------------
(* The theorems.                                                           *)

\* TypedAndDriven is an invariant of two daemons with any retry limits, any
\* table size, any queue bound, any options and any faults.
THEOREM Invariance == Spec => []TypedAndDriven
<1>1. Init => TypedAndDriven
  BY InitType
<1>2. TypedAndDriven /\ [Next]_vars => TypedAndDriven'
  BY NextStep
<1> QED
  BY <1>1, <1>2, PTL DEF Spec

\* Every field of PtpPortDS keeps a value of its C type, and no queue of
\* frames outgrows its bound.
THEOREM TypeCorrect == Spec => []TypeOK
<1>1. TypedAndDriven => TypeOK
  BY DEF TypedAndDriven
<1> QED
  BY <1>1, Invariance, PTL

\* toState(), doState() and handleSignaling() never leave the WR FSM running
\* in a port where doWRState() does not drive it, and never leave a port
\* UNCALIBRATED without a running WR FSM.
THEOREM RolesConsistent == Spec => []RoleConsistency
<1>1. TypedAndDriven => RoleConsistency
  BY DEF TypedAndDriven
<1> QED
  BY <1>1, Invariance, PTL

-----------------------------------------------------------------------------
(* The handshake: the invariant that follows which states of the WR FSM a  *)
(* port can only have reached with the peer's deltas and with its own      *)
(* calibration pattern switched off.                                       *)

\* The frames a slave port sends: a CALIBRATE asks for the calibration
\* pattern exactly where the PHY has to be calibrated.
FromSlave == {m \in Message : m.type = "CALIBRATE" => m.flag = PhyCalibrationRequired}

\* The configuration of a port decides which of the two state machines of the
\* link setup it can run.
Placed(n, p) ==
  /\ p.wrConfig = IF n = SlaveNode THEN "WR_S_ONLY" ELSE "WR_M_ONLY"
  /\ n = SlaveNode => /\ p.portState # "MASTER"
                      /\ p.wrMode # "WR_MASTER"
                      /\ p.wrPortState # "M_LOCK"
  /\ n = MasterNode => /\ p.portState \notin {"UNCALIBRATED", "SLAVE"}
                       /\ p.wrMode # "WR_SLAVE"
                       /\ p.wrPortState \in {"PRESENT", "S_LOCK", "LOCKED"} =>
                            p.portState = "INITIALIZING"

\* What makes WR mode right.
InWrMode(p) ==
  p.wrModeON => /\ p.otherNodeDeltas
                /\ ~p.calibrationPattern
                /\ p.wrPortState \in {"IDLE", "WR_LINK_ON"}

\* How far the handshake must be for the peer's deltas to be known.  The slave
\* learns them before its own calibration, the master after it.
PeerDeltas(n, p) ==
  /\ p.wrPortState = "WR_LINK_ON" => p.otherNodeDeltas
  /\ (/\ p.wrPortState = "RESP_CALIB_REQ"
      /\ p.wrSubstate >= 2 \/ p.msgTmpWrMessageID = "CALIBRATED") => p.otherNodeDeltas
  /\ n = SlaveNode /\ p.wrPortState \in {"CALIBRATION", "CALIBRATED"} => p.otherNodeDeltas

\* Where the calibration pattern is off.  A slave calibrates last, which ends
\* the pattern of both its own calibration and the master's; a master that
\* responds to the slave's request sends the pattern only if that request
\* still asks for it.
PatternOff(n, p) ==
  /\ p.wrPortState \in {"CALIBRATED", "WR_LINK_ON"} => ~p.calibrationPattern
  /\ p.wrPortState = "CALIBRATION" /\ p.wrSubstate >= 5 => ~p.calibrationPattern
  /\ n = MasterNode /\ p.wrPortState = "RESP_CALIB_REQ" =>
       /\ p.calibrationPattern \/ p.wrSubstate = 0 => p.otherNodeCalSendPattern
       /\ p.wrSubstate = 3 => ~p.calibrationPattern

\* Whether a calibration asks for the pattern depends on the PHY alone: a
\* slave is not yet calibrated when it asks.
Requests(n, p) ==
  /\ (/\ n = SlaveNode /\ PhyCalibrationRequired
      /\ p.wrPortState \notin {"CALIBRATED", "WR_LINK_ON", "IDLE"}) => ~p.calibrated
  /\ ~PhyCalibrationRequired /\ p.portState # "INITIALIZING" => p.calibrated
  /\ n = MasterNode /\ ~PhyCalibrationRequired => ~p.otherNodeCalSendPattern
  /\ n = SlaveNode => p.out \in Seq(FromSlave)

ModeOK(n, p) ==
  Placed(n, p) /\ InWrMode(p) /\ PeerDeltas(n, p) /\ PatternOff(n, p) /\ Requests(n, p)

Modes ==
  /\ \A n \in Node : ModeOK(n, port[n])
  /\ chan[MasterNode] \in Seq(FromSlave)

-----------------------------------------------------------------------------
(* Operators that leave the fields of ModeOK alone.                        *)

\* The fields ModeOK reads are the same.
Alike(q, p) ==
  /\ q.portState = p.portState
  /\ q.wrPortState = p.wrPortState
  /\ q.wrSubstate = p.wrSubstate
  /\ q.wrMode = p.wrMode
  /\ q.wrModeON = p.wrModeON
  /\ q.wrConfig = p.wrConfig
  /\ q.calibrated = p.calibrated
  /\ q.otherNodeCalSendPattern = p.otherNodeCalSendPattern
  /\ q.otherNodeDeltas = p.otherNodeDeltas
  /\ q.msgTmpWrMessageID = p.msgTmpWrMessageID
  /\ q.calibrationPattern = p.calibrationPattern
  /\ q.out = p.out

\* ModeOK depends on those fields only.
LEMMA AlikeMode ==
  ASSUME NEW n, NEW p, NEW q, Alike(q, p), ModeOK(n, p)
  PROVE  ModeOK(n, q)
<1>1. Placed(n, q)
  BY DEF Alike, ModeOK, Placed
<1>2. InWrMode(q)
  BY DEF Alike, ModeOK, InWrMode
<1>3. PeerDeltas(n, q)
  BY DEF Alike, ModeOK, PeerDeltas
<1>4. PatternOff(n, q)
  BY DEF Alike, ModeOK, PatternOff
<1>5. Requests(n, q)
  BY DEF Alike, ModeOK, Requests
<1> QED
  BY <1>1, <1>2, <1>3, <1>4, <1>5 DEF ModeOK

\* Fields that are alike in q and p and in r and q are alike in r and p.
LEMMA AlikeTrans ==
  ASSUME NEW p, NEW q, NEW r, Alike(q, p), Alike(r, q)
  PROVE  Alike(r, p)
BY DEF Alike

\* The best master clock algorithm leaves the link setup alone.
LEMMA BmcAlike ==
  ASSUME NEW p \in Port
  PROVE  Alike(M1(p), p) /\ Alike(S1(p), p)
<1>1. Alike(M1(p), p)
  BY DEF Alike, M1, Port
<1>2. Alike(S1(p), p)
  BY DEF Alike, S1, Port
<1> QED
  BY <1>1, <1>2

\* The foreign master table and its records leave the link setup alone.
LEMMA ForeignAlike ==
  ASSUME NEW p \in Port, NEW m \in Message
  PROVE  /\ Alike(ClearForeignMasters(p), p)
         /\ Alike(UnpackAnnounce(p, m), p)
         /\ Alike(AddForeign(p, m), p)
<1>1. Alike(ClearForeignMasters(p), p)
  BY DEF Alike, ClearForeignMasters, Port
<1>2. Alike(UnpackAnnounce(p, m), p)
  BY DEF Alike, UnpackAnnounce, Port
<1>3. Alike(AddForeign(p, m), p)
  <2> DEFINE p0 == IF p.foreign_record_i = 0 THEN UnpackAnnounce(p, m) ELSE p
             i == (p0.foreign_record_i + 1) % MaxForeignRecords
             q == [p0 EXCEPT !.number_foreign_records = 1, !.foreign_record_i = i]
  <2>1. p0 \in Port /\ Alike(p0, p)
    BY <1>2, UnpackAnnounceType DEF Alike
  <2>2. AddForeign(p, m) = UnpackAnnounce(p, m) \/ AddForeign(p, m) = q
    BY DEF AddForeign
  <2> HIDE DEF p0, i
  <2>3. Alike(q, p0)
    BY <2>1 DEF Alike, Port
  <2> QED
    BY <1>2, <2>1, <2>2, <2>3, AlikeTrans
<1> QED
  BY <1>1, <1>2, <1>3

\* So does an announce.
LEMMA HandleAnnounceAlike ==
  ASSUME NEW p \in Port, NEW m \in Message
  PROVE  Alike(HandleAnnounce(p, m), p)
<1> DEFINE p0 == IF p.portState \in {"UNCALIBRATED", "SLAVE"} /\ p.parentIsForeign
                 THEN UnpackAnnounce(p, m) ELSE AddForeign(p, m)
           q == [p0 EXCEPT !.record_update = TRUE, !.announceReceipt = TRUE]
           r == [p0 EXCEPT !.record_update = TRUE]
<1>1. p0 \in Port /\ Alike(p0, p)
  BY ForeignAlike, UnpackAnnounceType, AddForeignType
<1>2. HandleAnnounce(p, m) \in {p, q, r}
  <2>1. CASE p.portState \in {"INITIALIZING", "FAULTY", "DISABLED"}
    BY <2>1 DEF HandleAnnounce
  <2>2. CASE p.portState \in {"UNCALIBRATED", "SLAVE"}
    <3>1. HandleAnnounce(p, m) = q
      BY <2>2 DEF HandleAnnounce
    <3> QED
      BY <3>1
  <2>3. CASE p.portState \notin {"INITIALIZING", "FAULTY", "DISABLED", "UNCALIBRATED", "SLAVE"}
    <3>1. HandleAnnounce(p, m) = r
      BY <2>3 DEF HandleAnnounce
    <3> QED
      BY <3>1
  <2> QED
    BY <2>1, <2>2, <2>3
<1> HIDE DEF p0
<1>3. Alike(q, p0) /\ Alike(r, p0)
  BY <1>1 DEF Alike, Port
<1>4. Alike(p, p)
  BY DEF Alike
<1> HIDE DEF q, r
<1>5. Alike(q, p) /\ Alike(r, p)
  BY <1>1, <1>3, AlikeTrans
<1> QED
  BY <1>2, <1>4, <1>5

-----------------------------------------------------------------------------
(* The operators of the link setup, field by field.                        *)

\* What initWrData() leaves of a link setup.
LEMMA InitWrDataModes ==
  ASSUME NEW p \in Port, NEW mode
  PROVE  LET q == InitWrData(p, mode)
         IN  /\ q.wrPortState = "IDLE" /\ ~q.wrModeON
             /\ q.calibrated = ~PhyCalibrationRequired
             /\ ~q.otherNodeCalSendPattern
             /\ q.wrConfig = p.wrConfig /\ q.portState = p.portState
             /\ q.wrMode = IF mode = "INIT" THEN "NON_WR" ELSE p.wrMode
             /\ q.msgTmpWrMessageID = p.msgTmpWrMessageID
             /\ q.calibrationPattern = p.calibrationPattern
             /\ q.out = p.out
BY DEF InitWrData, Port

\* So a port whose data sets are initialised has no obligation.
LEMMA InitWrDataMode ==
  ASSUME NEW n \in Node, NEW p \in Port, NEW mode, ModeOK(n, p)
  PROVE  ModeOK(n, InitWrData(p, mode))
<1> DEFINE q == InitWrData(p, mode)
<1>1. /\ q.wrPortState = "IDLE" /\ ~q.wrModeON
      /\ q.calibrated = ~PhyCalibrationRequired
      /\ ~q.otherNodeCalSendPattern
      /\ q.wrConfig = p.wrConfig /\ q.portState = p.portState
      /\ q.wrMode = IF mode = "INIT" THEN "NON_WR" ELSE p.wrMode
      /\ q.out = p.out
  BY InitWrDataModes
<1> HIDE DEF q
<1>2. Placed(n, q)
  BY <1>1 DEF ModeOK, Placed
<1>3. InWrMode(q)
  BY <1>1 DEF InWrMode
<1>4. PeerDeltas(n, q)
  BY <1>1 DEF PeerDeltas
<1>5. PatternOff(n, q)
  BY <1>1 DEF PatternOff
<1>6. Requests(n, q)
  BY <1>1 DEF ModeOK, Requests
<1> QED
  BY <1>2, <1>3, <1>4, <1>5, <1>6 DEF ModeOK, q

\* The fields that toWRState() only changes where it re-initialises the data sets.
Kept(q, p) ==
  /\ q.portState = p.portState
  /\ q.wrMode = p.wrMode
  /\ q.wrConfig = p.wrConfig
  /\ q.calibrated = p.calibrated
  /\ q.otherNodeCalSendPattern = p.otherNodeCalSendPattern
  /\ q.otherNodeDeltas = p.otherNodeDeltas
  /\ q.msgTmpWrMessageID = p.msgTmpWrMessageID

\* The frames sent on entering WR state s: none, or one, and that is a
\* CALIBRATE only in WRS_CALIBRATION.
SentOnEntry(q, p, s) ==
  \/ q.out = p.out
  \/ \E m \in Message :
       /\ q.out = Append(p.out, m)
       /\ m.type = "CALIBRATE" => s = "CALIBRATION" /\ m.flag = ~p.calibrated

\* Sending appends one frame and changes nothing else.
LEMMA SendModes ==
  ASSUME NEW p \in Port, NEW type, NEW flag \in BOOLEAN
  PROVE  LET q == Send(p, type, flag)
         IN  /\ Kept(q, p)
             /\ q.wrPortState = p.wrPortState
             /\ q.wrSubstate = p.wrSubstate
             /\ q.wrModeON = p.wrModeON
             /\ q.calibrationPattern = p.calibrationPattern
             /\ q.out = Append(p.out, [type |-> type, flag |-> flag])
<1>1. p.out \in Seq(Message)
  BY PortFields
<1> QED
  BY <1>1 DEF Send, Kept, Port

\* A change of the WR state and of the substate alone.
LEMMA ToSubstateModes ==
  ASSUME NEW p \in Port, NEW s \in WrState, NEW i \in WrSubstate
  PROVE  LET q == ToSubstate(p, s, i)
         IN  /\ q \in Port
             /\ Kept(q, p)
             /\ q.wrPortState = s
             /\ q.wrSubstate = i
             /\ q.wrModeON = p.wrModeON
             /\ q.calibrationPattern = p.calibrationPattern
             /\ q.out = p.out
<1>1. ToSubstate(p, s, i) \in Port
  BY ToSubstateType
<1> QED
  BY <1>1 DEF ToSubstate, Kept, Port

\* Switching the calibration pattern on changes nothing else.
LEMMA SendPatternModes ==
  ASSUME NEW p \in Port, NEW on \in BOOLEAN
  PROVE  LET q == SendPattern(p, on)
         IN  /\ Kept(q, p)
             /\ q.wrPortState = p.wrPortState
             /\ q.wrSubstate = p.wrSubstate
             /\ q.wrModeON = p.wrModeON
             /\ q.calibrationPattern = (p.calibrationPattern \/ on)
             /\ q.out = p.out
BY DEF SendPattern, Kept, Port

\* Entering WRS_WR_LINK_ON switches WR mode on.
LEMMA EnterWrLinkOnModes ==
  ASSUME NEW p \in Port
  PROVE  LET q == EnterWrLinkOn(p)
         IN  /\ Kept(q, p)
             /\ q.calibrationPattern = p.calibrationPattern
             /\ SentOnEntry(q, p, "WR_LINK_ON")
<1> DEFINE m == [type |-> "WR_MODE_ON", flag |-> FALSE]
           p0 == IF p.wrMode = "WR_MASTER" THEN Send(p, "WR_MODE_ON", FALSE) ELSE p
           q == [p0 EXCEPT !.wrPortState = "WR_LINK_ON", !.wrSubstate = 0, !.wrModeON = TRUE,
                           !.parentWrModeON = TRUE, !.foreignWrModeON = TRUE]
<1>1. m \in Message
  BY DEF Message, SignalId
<1>2. /\ p0 \in Port /\ Kept(p0, p)
      /\ p0.calibrationPattern = p.calibrationPattern
      /\ p0.out = p.out \/ p0.out = Append(p.out, m)
  <2> DEFINE t == Send(p, "WR_MODE_ON", FALSE)
  <2>1. t \in Port
    BY SendType DEF SignalId
  <2>2. Kept(t, p) /\ t.calibrationPattern = p.calibrationPattern
    BY SendModes
  <2>4. t.out = Append(p.out, m)
    BY SendModes
  <2>3. Kept(p, p)
    BY DEF Kept
  <2> HIDE DEF t, m
  <2> QED
    BY <2>1, <2>2, <2>3, <2>4 DEF t
<1>3. EnterWrLinkOn(p) = q
  BY DEF EnterWrLinkOn
<1> HIDE DEF p0, m
<1>4. Kept(q, p0) /\ q.calibrationPattern = p0.calibrationPattern /\ q.out = p0.out
  BY <1>2 DEF Kept, Port
<1>5. m.type # "CALIBRATE"
  BY DEF m
<1> HIDE DEF q
<1>6. Kept(q, p)
  BY <1>2, <1>4 DEF Kept
<1>7. SentOnEntry(q, p, "WR_LINK_ON")
  BY <1>1, <1>2, <1>4, <1>5 DEF SentOnEntry
<1> QED
  BY <1>2, <1>3, <1>4, <1>6, <1>7

\* What the "entering" half of toWRState() does to the fields of ModeOK.
Entered(q, p, s) ==
  /\ Kept(q, p)
  /\ s # "WR_LINK_ON" => q.wrModeON = p.wrModeON
  /\ s = "CALIBRATION" => q.wrSubstate <= 2
  /\ s = "RESP_CALIB_REQ" =>
       q.wrSubstate <= 1 /\ (q.wrSubstate = 0 => p.otherNodeCalSendPattern)
  /\ q.calibrationPattern => \/ p.calibrationPattern
                             \/ s = "CALIBRATION"
                             \/ s = "RESP_CALIB_REQ" /\ p.otherNodeCalSendPattern
  /\ SentOnEntry(q, p, s)

\* toWRState() enters a state so, whatever the hardware answers.
LEMMA EnterWRStateModes ==
  ASSUME NEW p \in Port, NEW s \in WrState, NEW hw \in Nat
  PROVE  Entered(EnterWRState(p, s, hw), p, s)
<1> DEFINE q == EnterWRState(p, s, hw)
<1>1. /\ 0 \in WrSubstate /\ 1 \in WrSubstate /\ 2 \in WrSubstate
      /\ AtMost(hw, 1) \in 0 .. 1 /\ AtMost(hw, 2) \in 0 .. 2
      /\ AtMost(hw, 1) \in WrSubstate /\ AtMost(hw, 2) \in WrSubstate
  BY DEF WrSubstate, AtMost
<1>2. Kept(p, p) /\ SentOnEntry(p, p, s)
  BY DEF Kept, SentOnEntry
<1>3. CASE s \in {"PRESENT", "LOCKED", "M_LOCK"}
  <2> DEFINE type == IF s = "PRESENT" THEN "SLAVE_PRESENT"
                     ELSE IF s = "LOCKED" THEN "LOCKED" ELSE "LOCK"
             m == [type |-> type, flag |-> FALSE]
             p0 == Send(p, type, FALSE)
             q0 == ToSubstate(p0, s, 0)
  <2>1. m \in Message /\ m.type # "CALIBRATE"
    BY DEF Message, SignalId
  <2>2. p0 \in Port
    BY SendType DEF SignalId
  <2>3. Kept(p0, p) /\ p0.wrModeON = p.wrModeON /\ p0.calibrationPattern = p.calibrationPattern
    BY SendModes
  <2>4. p0.out = Append(p.out, m)
    BY SendModes
  <2>5. q = q0
    BY <1>3 DEF EnterWRState
  <2> HIDE DEF p0, q, m, q0
  <2>6. Kept(q0, p0) /\ q0.wrModeON = p0.wrModeON /\ q0.calibrationPattern = p0.calibrationPattern
    BY <1>1, <2>2, ToSubstateModes DEF q0
  <2>7. q0.out = p0.out
    BY <1>1, <2>2, ToSubstateModes DEF q0
  <2>8. SentOnEntry(q0, p, s)
    BY <2>1, <2>4, <2>7 DEF SentOnEntry
  <2>9. Kept(q0, p)
    BY <2>3, <2>6 DEF Kept
  <2> QED
    BY <1>3, <2>3, <2>5, <2>6, <2>8, <2>9 DEF Entered, q
<1>4. CASE s = "S_LOCK"
  <2> DEFINE q0 == ToSubstate(p, s, AtMost(hw, 1))
  <2>1. q = p \/ q = q0
    BY <1>4 DEF EnterWRState
  <2> HIDE DEF q, q0
  <2>2. /\ Kept(q0, p) /\ q0.wrModeON = p.wrModeON
        /\ q0.calibrationPattern = p.calibrationPattern /\ q0.out = p.out
    BY <1>1, ToSubstateModes DEF q0
  <2>3. SentOnEntry(q0, p, s)
    BY <2>2 DEF SentOnEntry
  <2> QED
    BY <1>2, <1>4, <2>1, <2>2, <2>3 DEF Entered, q
<1>5. CASE s = "CALIBRATION"
  <2> DEFINE m == [type |-> "CALIBRATE", flag |-> ~p.calibrated]
             p0 == Send(p, "CALIBRATE", ~p.calibrated)
             i == IF p.calibrated THEN 2 ELSE AtMost(hw, 2)
             c == (~p.calibrated /\ hw > 0)
             t == ToSubstate(p0, s, i)
             r == SendPattern(t, c)
  <2>1. (~p.calibrated) \in BOOLEAN /\ c \in BOOLEAN
    OBVIOUS
  <2>2. p0 \in Port
    BY <2>1, SendType DEF SignalId
  <2>3. Kept(p0, p) /\ p0.wrModeON = p.wrModeON
    BY <2>1, SendModes
  <2>4. p0.out = Append(p.out, m)
    BY <2>1, SendModes
  <2>5. m \in Message /\ m.flag = ~p.calibrated
    BY <2>1 DEF Message, SignalId
  <2>6. i \in WrSubstate /\ i <= 2
    BY <1>1
  <2>7. q = r
    BY <1>5 DEF EnterWRState
  <2> HIDE DEF p0, i, c, q, m, t, r
  <2>8. t \in Port /\ Kept(t, p0) /\ t.wrSubstate = i /\ t.wrModeON = p0.wrModeON
    BY <2>2, <2>6, ToSubstateModes DEF t
  <2>9. t.out = p0.out
    BY <2>2, <2>6, ToSubstateModes DEF t
  <2>10. Kept(r, t) /\ r.wrSubstate = t.wrSubstate /\ r.wrModeON = t.wrModeON
    BY <2>1, <2>8, SendPatternModes DEF r
  <2>11. r.out = t.out
    BY <2>1, <2>8, SendPatternModes DEF r
  <2>12. SentOnEntry(r, p, s)
    BY <1>5, <2>4, <2>5, <2>9, <2>11 DEF SentOnEntry
  <2>13. Kept(r, p)
    BY <2>3, <2>8, <2>10 DEF Kept
  <2> QED
    BY <1>5, <2>3, <2>6, <2>7, <2>8, <2>10, <2>12, <2>13 DEF Entered, q
<1>6. CASE s = "RESP_CALIB_REQ"
  <2> DEFINE i == IF p.otherNodeCalSendPattern THEN AtMost(hw, 1) ELSE 1
             c == (p.otherNodeCalSendPattern /\ hw > 0)
             t == ToSubstate(p, s, i)
             r == SendPattern(t, c)
  <2>1. c \in BOOLEAN /\ (c => p.otherNodeCalSendPattern)
    OBVIOUS
  <2>2. i \in WrSubstate /\ i <= 1 /\ (i = 0 => p.otherNodeCalSendPattern)
    BY <1>1
  <2>3. q = r
    BY <1>6 DEF EnterWRState
  <2> HIDE DEF i, c, q, t, r
  <2>4. /\ t \in Port /\ Kept(t, p) /\ t.wrSubstate = i /\ t.wrModeON = p.wrModeON
        /\ t.calibrationPattern = p.calibrationPattern /\ t.out = p.out
    BY <2>2, ToSubstateModes DEF t
  <2>5. /\ Kept(r, t) /\ r.wrSubstate = t.wrSubstate /\ r.wrModeON = t.wrModeON
        /\ r.calibrationPattern = (t.calibrationPattern \/ c) /\ r.out = t.out
    BY <2>1, <2>4, SendPatternModes DEF r
  <2>6. SentOnEntry(r, p, s)
    BY <2>4, <2>5 DEF SentOnEntry
  <2>7. Kept(r, p)
    BY <2>4, <2>5 DEF Kept
  <2>8. r.calibrationPattern => p.calibrationPattern \/ p.otherNodeCalSendPattern
    BY <2>1, <2>4, <2>5
  <2> QED
    BY <1>6, <2>2, <2>3, <2>4, <2>5, <2>6, <2>7, <2>8 DEF Entered, q
<1>7. CASE s = "WR_LINK_ON"
  <2>1. q = EnterWrLinkOn(p)
    BY <1>7 DEF EnterWRState
  <2> HIDE DEF q
  <2>2. /\ Kept(EnterWrLinkOn(p), p)
        /\ EnterWrLinkOn(p).calibrationPattern = p.calibrationPattern
        /\ SentOnEntry(EnterWrLinkOn(p), p, "WR_LINK_ON")
    BY EnterWrLinkOnModes
  <2> QED
    BY <1>7, <2>1, <2>2 DEF Entered, q
<1>8. CASE s \in {"IDLE", "CALIBRATED"}
  <2> DEFINE q0 == ToSubstate(p, s, 0)
  <2>1. q = q0
    BY <1>8 DEF EnterWRState
  <2> HIDE DEF q, q0
  <2>2. /\ Kept(q0, p) /\ q0.wrModeON = p.wrModeON
        /\ q0.calibrationPattern = p.calibrationPattern /\ q0.out = p.out
    BY <1>1, ToSubstateModes DEF q0
  <2>3. SentOnEntry(q0, p, s)
    BY <2>2 DEF SentOnEntry
  <2> QED
    BY <1>8, <2>1, <2>2, <2>3 DEF Entered, q
<1> QED
  BY <1>3, <1>4, <1>5, <1>6, <1>7, <1>8 DEF WrState

\* wrTimetoutManage() leaves the link setup alone.
LEMMA WrTimetoutManageAlike ==
  ASSUME NEW p \in Port, NEW entering, NEW exiting
  PROVE  Alike(WrTimetoutManage(p, entering, exiting), p)
BY DEF WrTimetoutManage, Alike, Port

\* The port data set toWRState() enters the new state with.
Left(p) == IF p.wrPortState = "IDLE" THEN InitWrData(p, "RE_INIT") ELSE p

\* toWRState() enters the state; it may not only for want of a slave role.
LEMMA ToWRStateModes ==
  ASSUME NEW p \in Port, NEW s \in WrState, NEW hw \in Nat
  PROVE  /\ Left(p) \in Port
         /\ ToWRState(p, s, hw) \in Port
         /\ \/ ToWRState(p, s, hw).wrPortState = s
            \/ s = "S_LOCK" /\ Alike(ToWRState(p, s, hw), Left(p))
         /\ Entered(ToWRState(p, s, hw), Left(p), s)
<1> DEFINE l == Left(p)
           e == EnterWRState(l, s, hw)
           q == WrTimetoutManage(e, s, p.wrPortState)
<1>1. l \in Port
  BY InitWrDataType DEF Left
<1>2. ToWRState(p, s, hw) = q
  BY DEF ToWRState, Left
<1>3. p.wrPortState \in WrState
  BY PortFields
<1>4. s = "S_LOCK" /\ e.wrPortState # s => e = l
  <2> SUFFICES ASSUME s = "S_LOCK", e.wrPortState # s
               PROVE  e = l
    OBVIOUS
  <2> HIDE DEF l
  <2>1. CASE l.wrSlaveRole = "NON_SLAVE"
    BY <2>1 DEF EnterWRState
  <2>2. CASE l.wrSlaveRole # "NON_SLAVE"
    <3>1. e = ToSubstate(l, s, AtMost(hw, 1))
      BY <2>2 DEF EnterWRState
    <3>2. AtMost(hw, 1) \in WrSubstate
      BY DEF AtMost, WrSubstate
    <3>3. e.wrPortState = s
      BY <1>1, <3>1, <3>2, ToSubstateType
    <3> QED
      BY <3>3
  <2> QED
    BY <2>1, <2>2
<1> HIDE DEF l
<1>5. /\ e \in Port /\ Entered(e, l, s)
      /\ e.wrPortState = s \/ s = "S_LOCK"
  BY <1>1, EnterWRStateType, EnterWRStateModes
<1> HIDE DEF e
<1>6. q \in Port /\ Alike(q, e)
  BY <1>3, <1>5, WrTimetoutManageType, WrTimetoutManageAlike
<1> HIDE DEF q
<1>7. Entered(q, l, s)
  BY <1>5, <1>6 DEF Entered, Alike, Kept, SentOnEntry
<1>8. q.wrPortState = s \/ (s = "S_LOCK" /\ Alike(q, l))
  <2>1. CASE e.wrPortState = s
    BY <1>6, <2>1 DEF Alike
  <2>2. CASE e.wrPortState # s
    BY <1>4, <1>5, <1>6, <2>2
  <2> QED
    BY <2>1, <2>2
<1> QED
  BY <1>1, <1>2, <1>6, <1>7, <1>8 DEF l

\* What has to hold for the WR FSM to enter state s.
MayEnter(n, p, s) ==
  /\ n = SlaveNode => s # "M_LOCK"
  /\ n = MasterNode => s \notin {"PRESENT", "S_LOCK", "LOCKED"}
  /\ s \notin {"IDLE", "WR_LINK_ON"} => ~p.wrModeON
  /\ s = "WR_LINK_ON" => p.otherNodeDeltas /\ ~p.calibrationPattern
  /\ s = "CALIBRATED" => ~p.calibrationPattern /\ (n = SlaveNode => p.otherNodeDeltas)
  /\ s = "CALIBRATION" =>
       p.portState # "INITIALIZING" /\ (n = SlaveNode => p.otherNodeDeltas)
  /\ s = "RESP_CALIB_REQ" =>
       /\ p.msgTmpWrMessageID = "CALIBRATED" => p.otherNodeDeltas
       /\ n = MasterNode => (p.calibrationPattern => p.otherNodeCalSendPattern)
  /\ (/\ n = SlaveNode /\ PhyCalibrationRequired
      /\ s \notin {"CALIBRATED", "WR_LINK_ON", "IDLE"}) => ~p.calibrated

\* A state entered so leaves a port whose mode is right.
LEMMA EnteredMode ==
  ASSUME NEW n \in Node, NEW p \in Port, NEW q \in Port, NEW s \in WrState,
         ModeOK(n, p), MayEnter(n, p, s), Entered(q, p, s), q.wrPortState = s
  PROVE  ModeOK(n, q)
<1>1. Kept(q, p)
  BY DEF Entered
<1>2. Placed(n, q)
  BY <1>1 DEF Kept, ModeOK, Placed, MayEnter
<1>3. InWrMode(q)
  <2>1. CASE s = "WR_LINK_ON"
    BY <1>1, <2>1 DEF Kept, Entered, MayEnter, InWrMode
  <2>2. CASE s = "IDLE"
    BY <1>1, <2>2 DEF Kept, Entered, ModeOK, InWrMode
  <2>3. CASE s \notin {"IDLE", "WR_LINK_ON"}
    BY <1>1, <2>3 DEF Entered, MayEnter, InWrMode
  <2> QED
    BY <2>1, <2>2, <2>3
<1>4. PeerDeltas(n, q)
  <2>1. q.wrSubstate \in 0 .. 8
    BY PortFields DEF WrSubstate
  <2>2. CASE s = "RESP_CALIB_REQ"
    BY <1>1, <2>1, <2>2 DEF Kept, Entered, MayEnter, PeerDeltas
  <2>3. CASE s # "RESP_CALIB_REQ"
    BY <1>1, <2>3 DEF Kept, MayEnter, PeerDeltas
  <2> QED
    BY <2>2, <2>3
<1>5. PatternOff(n, q)
  <2>1. q.wrSubstate \in 0 .. 8
    BY PortFields DEF WrSubstate
  <2>2. CASE s = "RESP_CALIB_REQ"
    BY <1>1, <2>1, <2>2 DEF Kept, Entered, MayEnter, PatternOff
  <2>3. CASE s = "CALIBRATION"
    BY <2>1, <2>3 DEF Entered, PatternOff
  <2>4. CASE s \notin {"RESP_CALIB_REQ", "CALIBRATION"}
    BY <1>1, <2>4 DEF Entered, MayEnter, PatternOff
  <2> QED
    BY <2>2, <2>3, <2>4
<1>6. n = SlaveNode => q.out \in Seq(FromSlave)
  <2> SUFFICES ASSUME n = SlaveNode PROVE q.out \in Seq(FromSlave)
    OBVIOUS
  <2>1. p.out \in Seq(FromSlave)
    BY DEF ModeOK, Requests
  <2>2. ASSUME NEW m \in Message, q.out = Append(p.out, m),
               m.type = "CALIBRATE" => s = "CALIBRATION" /\ m.flag = ~p.calibrated
        PROVE  q.out \in Seq(FromSlave)
    <3>1. m.type = "CALIBRATE" => m.flag = PhyCalibrationRequired
      BY <2>2, OptionAssumption DEF ModeOK, Requests, MayEnter
    <3>2. m \in FromSlave
      BY <2>2, <3>1 DEF FromSlave
    <3> QED
      BY <2>1, <2>2, <3>2
  <2> QED
    BY <2>1, <2>2 DEF Entered, SentOnEntry
<1>7. Requests(n, q)
  BY <1>1, <1>6 DEF Kept, MayEnter, ModeOK, Requests
<1> QED
  BY <1>2, <1>3, <1>4, <1>5, <1>7 DEF ModeOK

\* toWRState() keeps ModeOK where the state may be entered.
LEMMA ToWRStateMode ==
  ASSUME NEW n \in Node, NEW p \in Port, NEW s \in WrState, NEW hw \in Nat,
         ModeOK(n, p), MayEnter(n, Left(p), s)
  PROVE  ModeOK(n, ToWRState(p, s, hw))
<1>1. ModeOK(n, Left(p))
  BY InitWrDataMode DEF Left
<1> QED
  BY <1>1, ToWRStateModes, EnteredMode, AlikeMode

\* Going idle is always right.
LEMMA ToIdleMode ==
  ASSUME NEW n \in Node, NEW p \in Port, ModeOK(n, p)
  PROVE  ModeOK(n, ToWRState(p, "IDLE", 0))
<1>1. MayEnter(n, Left(p), "IDLE")
  BY DEF MayEnter
<1> QED
  BY <1>1, ToWRStateMode DEF WrState

-----------------------------------------------------------------------------
(* The PTP port state.                                                     *)

\* The fields toState() leaves alone while the WR FSM is idle.
Stays(q, p) ==
  /\ q.wrPortState = p.wrPortState
  /\ q.wrSubstate = p.wrSubstate
  /\ q.wrConfig = p.wrConfig
  /\ q.calibrated = p.calibrated
  /\ q.otherNodeCalSendPattern = p.otherNodeCalSendPattern
  /\ q.otherNodeDeltas = p.otherNodeDeltas
  /\ q.msgTmpWrMessageID = p.msgTmpWrMessageID
  /\ q.calibrationPattern = p.calibrationPattern
  /\ q.out = p.out

\* Changing the PTP state and the WR mode, or leaving WR mode, keeps ModeOK.
LEMMA StaysMode ==
  ASSUME NEW n, NEW p, NEW q, ModeOK(n, p), Stays(q, p), Placed(n, q),
         q.wrModeON => p.wrModeON,
         ~PhyCalibrationRequired /\ q.portState # "INITIALIZING" => q.calibrated
  PROVE  ModeOK(n, q)
<1>1. InWrMode(q)
  BY DEF Stays, ModeOK, InWrMode
<1>2. PeerDeltas(n, q)
  BY DEF Stays, ModeOK, PeerDeltas
<1>3. PatternOff(n, q)
  BY DEF Stays, ModeOK, PatternOff
<1>4. Requests(n, q)
  BY DEF Stays, ModeOK, Requests
<1> QED
  BY <1>1, <1>2, <1>3, <1>4 DEF ModeOK

\* Leaving a PTP state.
LEMMA LeaveStateMode ==
  ASSUME NEW n \in Node, NEW p \in Port, ModeOK(n, p)
  PROVE  LET q == LeaveState(p)
         IN  /\ ModeOK(n, q)
             /\ q.calibrated = p.calibrated
<1> DEFINE q1 == [p EXCEPT !.announceReceipt = FALSE, !.wrMode = "NON_WR", !.wrModeON = FALSE]
           q2 == [p EXCEPT !.announceReceipt = FALSE]
<1>1. LeaveState(p) \in {q1, q2, p}
  BY DEF LeaveState
<1>2. /\ Stays(q1, p) /\ q1.portState = p.portState /\ q1.wrMode = "NON_WR"
      /\ ~q1.wrModeON
  BY DEF Stays, Port
<1>3. Alike(q2, p)
  BY DEF Alike, Port
<1> HIDE DEF q1, q2
<1>4. Placed(n, q1)
  BY <1>2 DEF Stays, ModeOK, Placed
<1>5. ~PhyCalibrationRequired /\ q1.portState # "INITIALIZING" => q1.calibrated
  BY <1>2 DEF Stays, ModeOK, Requests
<1>6. ModeOK(n, q1)
  BY <1>2, <1>4, <1>5, StaysMode
<1>7. ModeOK(n, q2)
  BY <1>3, AlikeMode
<1> QED
  BY <1>1, <1>2, <1>3, <1>6, <1>7 DEF Stays, Alike

\* The PTP states a port may be put into: those of its configuration, and none
\* but PTP_INITIALIZING before its WR data sets are initialised.
MayBe(n, p, s) ==
  /\ n = SlaveNode => s # "MASTER"
  /\ n = MasterNode => s \notin {"UNCALIBRATED", "SLAVE"}
  /\ ~PhyCalibrationRequired /\ s # "INITIALIZING" => p.calibrated

\* Entering PTP_UNCALIBRATED.
LEMMA EnterUncalibratedMode ==
  ASSUME NEW n \in Node, NEW p \in Port, ModeOK(n, p), p.wrPortState = "IDLE",
         MayBe(n, p, "UNCALIBRATED")
  PROVE  ModeOK(n, EnterUncalibrated(p))
<1> DEFINE w == ToWRState(p, "PRESENT", 0)
           u == [w EXCEPT !.portState = "UNCALIBRATED"]
           s == [p EXCEPT !.portState = "SLAVE"]
           t == [p EXCEPT !.wrMode = "NON_WR", !.portState = "SLAVE"]
<1>1. EnterUncalibrated(p) \in {u, s, t}
  BY DEF EnterUncalibrated
<1>2. n = SlaveNode /\ n # MasterNode
  BY NodesAssumption DEF MayBe, Node
<1>3. /\ Stays(s, p) /\ s.portState = "SLAVE" /\ s.wrMode = p.wrMode /\ s.wrModeON = p.wrModeON
      /\ Stays(t, p) /\ t.portState = "SLAVE" /\ t.wrMode = "NON_WR" /\ t.wrModeON = p.wrModeON
  BY DEF Stays, Port
<1> HIDE DEF w, u, s, t
<1>4. ModeOK(n, s)
  <2>1. Placed(n, s)
    BY <1>2, <1>3 DEF Stays, ModeOK, Placed
  <2>2. ~PhyCalibrationRequired => s.calibrated
    BY <1>3 DEF Stays, MayBe
  <2> QED
    BY <1>3, <2>1, <2>2, StaysMode
<1>5. ModeOK(n, t)
  <2>1. Placed(n, t)
    BY <1>2, <1>3 DEF Stays, ModeOK, Placed
  <2>2. ~PhyCalibrationRequired => t.calibrated
    BY <1>3 DEF Stays, MayBe
  <2> QED
    BY <1>3, <2>1, <2>2, StaysMode
<1>6. ModeOK(n, u)
  <2>1. Left(p) = InitWrData(p, "RE_INIT")
    BY DEF Left
  <2>2. ~Left(p).wrModeON /\ Left(p).calibrated = ~PhyCalibrationRequired
    BY <2>1, InitWrDataModes
  <2>3. MayEnter(n, Left(p), "PRESENT")
    BY <1>2, <2>2 DEF MayEnter
  <2>4. "PRESENT" \in WrState
    BY DEF WrState
  <2>5. ModeOK(n, w)
    BY <2>3, <2>4, ToWRStateMode DEF w
  <2>6. w \in Port
    BY <2>4, ToWRStateModes DEF w
  <2>7. Stays(u, w) /\ u.portState = "UNCALIBRATED" /\ u.wrMode = w.wrMode /\ u.wrModeON = w.wrModeON
    BY <2>6 DEF u, Stays, Port
  <2>8. w.calibrated = ~PhyCalibrationRequired
    BY <2>2, <2>4, ToWRStateModes DEF w, Entered, Kept
  <2>9. Placed(n, u)
    BY <1>2, <2>5, <2>7 DEF Stays, ModeOK, Placed
  <2> QED
    BY <2>5, <2>7, <2>8, <2>9, StaysMode DEF Stays
<1> QED
  BY <1>1, <1>4, <1>5, <1>6

\* toState() keeps ModeOK.
LEMMA ToStateMode ==
  ASSUME NEW n \in Node, NEW p \in Port, NEW s \in PortState, ModeOK(n, p),
         p.wrPortState = "IDLE" => MayBe(n, p, s)
  PROVE  ModeOK(n, ToState(p, s))
<1> DEFINE l == LeaveState(p)
           e == [l EXCEPT !.portState = s,
                          !.announceReceipt = @ \/ s \in {"LISTENING", "SLAVE"}]
<1>1. CASE p.wrPortState # "IDLE"
  BY <1>1 DEF ToState
<1>2. CASE p.wrPortState = "IDLE"
  <2>1. l \in Port /\ l.wrPortState = "IDLE"
    BY <1>2, LeaveStateType
  <2>2. ModeOK(n, l) /\ l.calibrated = p.calibrated
    BY LeaveStateMode
  <2>3. ToState(p, s) = IF s = "UNCALIBRATED" THEN EnterUncalibrated(l) ELSE e
    BY <1>2 DEF ToState, EnterState
  <2> HIDE DEF l
  <2>4. MayBe(n, l, s)
    BY <1>2, <2>2 DEF MayBe
  <2>5. CASE s = "UNCALIBRATED"
    BY <2>1, <2>2, <2>3, <2>4, <2>5, EnterUncalibratedMode
  <2>6. CASE s # "UNCALIBRATED"
    <3>1. Stays(e, l) /\ e.portState = s /\ e.wrMode = l.wrMode /\ e.wrModeON = l.wrModeON
      BY <2>1 DEF Stays, Port
    <3> HIDE DEF e
    <3>2. Placed(n, e)
      BY <2>1, <2>2, <2>4, <3>1 DEF Stays, ModeOK, Placed, MayBe
    <3>3. ~PhyCalibrationRequired /\ e.portState # "INITIALIZING" => e.calibrated
      BY <2>4, <3>1 DEF Stays, MayBe
    <3>4. ModeOK(n, e)
      BY <2>2, <3>1, <3>2, <3>3, StaysMode
    <3> QED
      BY <2>3, <2>6, <3>4
  <2> QED
    BY <2>5, <2>6
<1> QED
  BY <1>1, <1>2

\* doInit(): the WR data sets are initialised before the port listens.
LEMMA DoInitMode ==
  ASSUME NEW n \in Node, NEW p \in Port, ModeOK(n, p)
  PROVE  ModeOK(n, DoInit(p))
<1> DEFINE i == InitWrData(p, "INIT")
           q == [i EXCEPT !.doRestart = FALSE,
                          !.number_foreign_records = 0,
                          !.announceReceipt = FALSE]
           m == M1(q)
<1>1. i \in Port /\ ModeOK(n, i)
  BY InitWrDataType, InitWrDataMode
<1>2. i.calibrated = ~PhyCalibrationRequired
  BY InitWrDataModes
<1>3. DoInit(p) = ToState(m, "LISTENING")
  BY DEF DoInit
<1> HIDE DEF i
<1>4. q \in Port
  <2> DEFINE q1 == [i EXCEPT !.doRestart = FALSE]
             q2 == [q1 EXCEPT !.number_foreign_records = 0]
             q3 == [q2 EXCEPT !.announceReceipt = FALSE]
  <2>1. q = q3
    OBVIOUS
  <2> HIDE DEF q, q1, q2, q3
  <2>2. q1 \in Port
    BY <1>1, BooleanUpdate DEF q1
  <2>3. q2 \in Port
    BY <2>2, DataUpdate DEF q2
  <2>4. q3 \in Port
    BY <2>3, BooleanUpdate DEF q3
  <2> QED
    BY <2>1, <2>4
<1>5. Alike(q, i)
  BY <1>1 DEF Alike, Port
<1> HIDE DEF q
<1>6. m \in Port /\ Alike(m, q)
  BY <1>4, M1Type, BmcAlike
<1> HIDE DEF m
<1>7. ModeOK(n, m) /\ m.calibrated = ~PhyCalibrationRequired
  <2>1. ModeOK(n, q)
    BY <1>1, <1>5, AlikeMode
  <2>2. ModeOK(n, m)
    BY <1>6, <2>1, AlikeMode
  <2> QED
    BY <1>2, <1>5, <1>6, <2>2 DEF Alike
<1>8. MayBe(n, m, "LISTENING") /\ "LISTENING" \in PortState
  BY <1>7 DEF MayBe, PortState
<1> QED
  BY <1>3, <1>6, <1>7, <1>8, ToStateMode

\* singlePortLoop(): the link, and a restart the servo has asked for.
LEMMA CheckLinkMode ==
  ASSUME NEW n \in Node, NEW p \in Port, ModeOK(n, p), NEW up \in BOOLEAN
  PROVE  ModeOK(n, CheckLink(p, up))
<1> DEFINE l == [p EXCEPT !.linkUP = up]
           t == ToState(l, "INITIALIZING")
           i == DoInit(t)
           c == IF i.wrConfig = "WR_S_ONLY" THEN ClearForeignMasters(i) ELSE i
           r == [c EXCEPT !.doRestart = FALSE]
           d == IF l.wrConfig = "WR_S_ONLY" THEN ClearForeignMasters(l) ELSE l
<1>1. CheckLink(p, up) \in {r, d, l}
  BY DEF CheckLink
<1>2. l \in Port
  BY BooleanUpdate
<1>3. Alike(l, p)
  BY DEF Alike, Port
<1> HIDE DEF l, t, i, c, r, d
<1>4. ModeOK(n, l)
  BY <1>3, AlikeMode
<1>5. Alike(ClearForeignMasters(l), l)
  BY <1>2 DEF Alike, ClearForeignMasters, Port
<1>6. ModeOK(n, d)
  BY <1>4, <1>5, AlikeMode DEF d
<1>7. t \in Port /\ ModeOK(n, t)
  <2>1. MayBe(n, l, "INITIALIZING") /\ "INITIALIZING" \in PortState
    BY DEF MayBe, PortState
  <2> QED
    BY <1>2, <1>4, <2>1, ToStateType, ToStateMode DEF t
<1>8. i \in Port /\ ModeOK(n, i)
  BY <1>7, DoInitType, DoInitMode DEF i
<1>9. c \in Port /\ ModeOK(n, c)
  <2>1. ClearForeignMasters(i) \in Port
    BY <1>8, ClearForeignMastersType
  <2>2. Alike(ClearForeignMasters(i), i)
    BY <1>8 DEF Alike, ClearForeignMasters, Port
  <2>3. ModeOK(n, ClearForeignMasters(i))
    BY <1>8, <2>2, AlikeMode
  <2> QED
    BY <1>8, <2>1, <2>3 DEF c
<1>10. Alike(r, c)
  BY <1>9 DEF r, Alike, Port
<1>11. ModeOK(n, r)
  BY <1>9, <1>10, AlikeMode
<1> QED
  BY <1>1, <1>4, <1>6, <1>11

\* bmc() and the first switch of doState().
LEMMA DecideMode ==
  ASSUME NEW n \in Node, NEW p \in Port, ModeOK(n, p)
  PROVE  ModeOK(n, Decide(p))
<1> DEFINE u == [p EXCEPT !.record_update = FALSE]
           q == Bmc(u)
           s == RecommendedState(p)
           o == [q EXCEPT !.wrMode = "WR_SLAVE", !.wrModeON = FALSE]
<1>1. CASE ~StateDecisionEvent(p)
  BY <1>1 DEF Decide
<1>2. CASE StateDecisionEvent(p)
  <2>1. u \in Port
    BY BooleanUpdate
  <2>2. Alike(u, p)
    BY DEF Alike, Port
  <2>3. \/ Decide(p) = ToState(o, "UNCALIBRATED") /\ s = "SLAVE"
        \/ Decide(p) = ToState(q, s) /\ s = "MASTER"
        \/ Decide(p) = ToState(q, "UNCALIBRATED") /\ q.portState = "SLAVE"
        \/ Decide(p) = q
    BY <1>2 DEF Decide, RecommendedState, SynchronizationFault
  <2> HIDE DEF u
  <2>4. q \in Port /\ Alike(q, u)
    BY <2>1, M1Type, S1Type, BmcAlike DEF Bmc
  <2>5. s = IF n = SlaveNode THEN "SLAVE" ELSE "MASTER"
    BY DEF RecommendedState, ModeOK, Placed
  <2> HIDE DEF q, s
  <2>6. Alike(q, p)
    BY <2>2, <2>4, AlikeTrans
  <2>7. ModeOK(n, q)
    BY <2>6, AlikeMode
  <2>8. q.portState \in {"LISTENING", "SLAVE", "MASTER"} /\ q.wrPortState = "IDLE"
    BY <1>2, <2>6 DEF Alike, StateDecisionEvent
  <2>9. ~PhyCalibrationRequired => q.calibrated
    BY <2>7, <2>8 DEF ModeOK, Requests
  <2>10. CASE Decide(p) = ToState(o, "UNCALIBRATED") /\ s = "SLAVE"
    <3>1. n = SlaveNode /\ n # MasterNode
      BY <2>5, <2>10, NodesAssumption
    <3> DEFINE o1 == [q EXCEPT !.wrMode = "WR_SLAVE"]
               o2 == [o1 EXCEPT !.wrModeON = FALSE]
    <3>2. o = o2
      OBVIOUS
    <3>3. /\ Stays(o, q) /\ o.portState = q.portState /\ o.wrMode = "WR_SLAVE"
          /\ ~o.wrModeON
      BY <2>4 DEF Stays, Port
    <3> HIDE DEF o, o1, o2
    <3>4. o1 \in Port
      BY <2>4, StateUpdate DEF o1, WrMode
    <3>5. o \in Port
      BY <3>2, <3>4, BooleanUpdate DEF o2
    <3>6. Placed(n, o)
      BY <2>7, <3>1, <3>3 DEF ModeOK, Placed, Stays
    <3>7. ModeOK(n, o) /\ MayBe(n, o, "UNCALIBRATED")
      BY <2>7, <2>9, <3>1, <3>3, <3>6, StaysMode DEF Stays, MayBe
    <3>8. "UNCALIBRATED" \in PortState
      BY DEF PortState
    <3> QED
      BY <2>10, <3>5, <3>7, <3>8, ToStateMode
  <2>11. CASE Decide(p) = ToState(q, s) /\ s = "MASTER"
    <3>1. MayBe(n, q, "MASTER") /\ "MASTER" \in PortState
      BY <2>5, <2>9, <2>11 DEF MayBe, PortState
    <3> QED
      BY <2>4, <2>7, <2>11, <3>1, ToStateMode
  <2>12. CASE Decide(p) = ToState(q, "UNCALIBRATED") /\ q.portState = "SLAVE"
    <3>1. MayBe(n, q, "UNCALIBRATED") /\ "UNCALIBRATED" \in PortState
      BY <2>7, <2>9, <2>12 DEF MayBe, PortState, ModeOK, Placed
    <3> QED
      BY <2>4, <2>7, <2>12, <3>1, ToStateMode
  <2> QED
    BY <2>3, <2>7, <2>10, <2>11, <2>12
<1> QED
  BY <1>1, <1>2

\* A port comes to the body of its state with ModeOK.
LEMMA ReadyMode ==
  ASSUME NEW n \in Node, port[n] \in Port, RoleOK(port[n]), ModeOK(n, port[n])
  PROVE  ModeOK(n, Ready(n))
<1>1. CheckLink(port[n], TRUE) \in Port
  BY CheckLinkType
<1> QED
  BY <1>1, CheckLinkMode, DecideMode DEF Ready

-----------------------------------------------------------------------------
(* Receiving.                                                              *)

\* What a signaling frame leaves behind.
LEMMA UnpackSignalingMode ==
  ASSUME NEW n \in Node, NEW p \in Port, NEW m \in Message, m.type # "ANNOUNCE",
         ModeOK(n, p), n = MasterNode => m \in FromSlave
  PROVE  LET q == UnpackSignaling(p, m)
         IN  /\ ModeOK(n, q)
             /\ q.portState = p.portState /\ q.wrPortState = p.wrPortState
             /\ q.msgTmpWrMessageID = m.type
             /\ q.wrMode = p.wrMode /\ q.wrModeON = p.wrModeON /\ q.wrConfig = p.wrConfig
<1> DEFINE q == UnpackSignaling(p, m)
<1>1. /\ q.portState = p.portState /\ q.wrPortState = p.wrPortState
      /\ q.wrSubstate = p.wrSubstate
      /\ q.wrMode = p.wrMode /\ q.wrModeON = p.wrModeON /\ q.wrConfig = p.wrConfig
      /\ q.calibrated = p.calibrated
      /\ q.calibrationPattern = p.calibrationPattern
      /\ q.out = p.out
      /\ q.msgTmpWrMessageID = m.type
      /\ q.otherNodeDeltas = (p.otherNodeDeltas \/ m.type = "CALIBRATED")
  BY DEF UnpackSignaling, Port
<1>2. q.otherNodeCalSendPattern = IF m.type = "CALIBRATE" THEN m.flag
                                  ELSE p.otherNodeCalSendPattern
  BY DEF UnpackSignaling, Port
<1>3. m.type = "CALIBRATE" /\ n = MasterNode => m.flag = PhyCalibrationRequired
  BY DEF FromSlave
<1> HIDE DEF q
<1>4. Placed(n, q)
  BY <1>1 DEF ModeOK, Placed
<1>5. InWrMode(q)
  BY <1>1 DEF ModeOK, InWrMode
<1>6. PeerDeltas(n, q)
  BY <1>1 DEF ModeOK, PeerDeltas
<1>7. PatternOff(n, q)
  BY <1>1, <1>2, <1>3, OptionAssumption DEF ModeOK, PatternOff, Requests
<1>8. Requests(n, q)
  BY <1>1, <1>2, <1>3, OptionAssumption DEF ModeOK, Requests
<1> QED
  BY <1>1, <1>4, <1>5, <1>6, <1>7, <1>8 DEF ModeOK, q

\* handleSignaling(): only a master port starts over, and never out of
\* WRS_WR_LINK_ON, in which no frame is read.
LEMMA HandleSignalingMode ==
  ASSUME NEW n \in Node, NEW p \in Port, NEW m \in Message, m.type # "ANNOUNCE",
         ModeOK(n, p), p.wrPortState # "WR_LINK_ON", n = MasterNode => m \in FromSlave
  PROVE  LET q == HandleSignaling(p, m)
         IN  /\ ModeOK(n, q)
             /\ q.portState = p.portState
             /\ q.msgTmpWrMessageID = m.type
             /\ q.wrPortState = p.wrPortState \/ m.type = "SLAVE_PRESENT"
<1> DEFINE u == UnpackSignaling(p, m)
           w == [u EXCEPT !.wrMode = "WR_MASTER"]
           t == ToWRState(w, "M_LOCK", 0)
           q == HandleSignaling(p, m)
<1>1. q = u \/ (q = t /\ u.portState = "MASTER" /\ m.type = "SLAVE_PRESENT")
  BY DEF HandleSignaling
<1>2. u \in Port
  BY UnpackSignalingType
<1>3. /\ ModeOK(n, u) /\ u.portState = p.portState /\ u.wrPortState = p.wrPortState
      /\ u.msgTmpWrMessageID = m.type
  BY UnpackSignalingMode
<1> HIDE DEF u, w, t, q
<1>4. CASE q = u
  BY <1>3, <1>4 DEF q
<1>5. CASE q = t /\ u.portState = "MASTER" /\ m.type = "SLAVE_PRESENT"
  <2>1. n = MasterNode /\ n # SlaveNode
    BY <1>3, <1>5, NodesAssumption DEF ModeOK, Placed, Node
  <2>2. w \in Port
    BY <1>2, StateUpdate DEF w, WrMode
  <2>3. /\ Stays(w, u) /\ w.portState = u.portState /\ w.wrMode = "WR_MASTER"
        /\ w.wrModeON = u.wrModeON
    BY <1>2 DEF w, Stays, Port
  <2>4. Placed(n, w)
    BY <1>3, <2>1, <2>3 DEF ModeOK, Placed, Stays
  <2>5. ~PhyCalibrationRequired /\ w.portState # "INITIALIZING" => w.calibrated
    BY <1>3, <2>3 DEF ModeOK, Requests, Stays
  <2>6. ModeOK(n, w)
    BY <1>3, <2>3, <2>4, <2>5, StaysMode
  <2>7. ~Left(w).wrModeON
    <3>1. CASE w.wrPortState = "IDLE"
      BY <2>2, <3>1, InitWrDataModes DEF Left
    <3>2. CASE w.wrPortState # "IDLE"
      BY <1>3, <2>3, <2>6, <3>2 DEF Left, ModeOK, InWrMode, Stays
    <3> QED
      BY <3>1, <3>2
  <2>8. MayEnter(n, Left(w), "M_LOCK") /\ "M_LOCK" \in WrState
    BY <2>1, <2>7 DEF MayEnter, WrState
  <2>9. ModeOK(n, t)
    BY <2>2, <2>6, <2>8, ToWRStateMode DEF t
  <2>10. Kept(t, Left(w))
    BY <2>2, <2>8, ToWRStateModes DEF t, Entered
  <2>11. Left(w).portState = w.portState /\ Left(w).msgTmpWrMessageID = w.msgTmpWrMessageID
    BY <2>2, InitWrDataModes DEF Left
  <2>12. t.portState = p.portState /\ t.msgTmpWrMessageID = m.type
    BY <1>3, <2>3, <2>10, <2>11 DEF Kept, Stays
  <2> QED
    BY <1>5, <2>9, <2>12 DEF q
<1> QED
  BY <1>1, <1>4, <1>5

\* handle() keeps ModeOK; unless a SLAVE_PRESENT has been heard the WR state is
\* the one the port was in.
LEMMA HandleMode ==
  ASSUME NEW n \in Node, NEW p \in Port, NEW rx \in Received, ModeOK(n, p),
         p.portState # "INITIALIZING", p.wrPortState # "WR_LINK_ON",
         n = MasterNode /\ rx \in Message => rx \in FromSlave
  PROVE  LET q == Handle(p, rx)
         IN  /\ ModeOK(n, q)
             /\ q.portState # "INITIALIZING"
             /\ q.wrPortState = p.wrPortState \/ q.msgTmpWrMessageID = "SLAVE_PRESENT"
<1> DEFINE q == Handle(p, rx)
           Goal == /\ ModeOK(n, q)
                   /\ q.portState # "INITIALIZING"
                   /\ q.wrPortState = p.wrPortState \/ q.msgTmpWrMessageID = "SLAVE_PRESENT"
<1> SUFFICES Goal
  OBVIOUS
<1>1. CASE rx = NoFrame
  BY <1>1 DEF Handle, NoFrame
<1>2. CASE rx = RecvError
  <2> DEFINE t == ToState(p, "FAULTY")
  <2>1. q = t
    BY <1>2 DEF Handle, RecvError
  <2>2. MayBe(n, p, "FAULTY") /\ "FAULTY" \in PortState
    BY DEF MayBe, PortState, ModeOK, Requests
  <2>3. ModeOK(n, t)
    BY <2>2, ToStateMode
  <2>4. /\ p.wrPortState # "IDLE" => t = p
        /\ p.wrPortState = "IDLE" => t.portState = "FAULTY" /\ t.wrPortState = "IDLE"
    BY <2>2, ToStateType
  <2> HIDE DEF q, t
  <2> QED
    BY <2>1, <2>3, <2>4
<1>3. CASE rx = DelayResp
  <2> DEFINE d == [p EXCEPT !.doRestart = @ \/ (p.portState = "SLAVE" /\ p.parentIsForeign)]
  <2>1. q = d
    BY <1>3 DEF Handle, DelayResp
  <2>2. Alike(d, p)
    BY DEF Alike, Port
  <2> HIDE DEF q, d
  <2>3. ModeOK(n, d)
    BY <2>2, AlikeMode
  <2> QED
    BY <2>1, <2>2, <2>3 DEF Alike
<1>4. CASE rx \in Message /\ rx.type = "ANNOUNCE"
  <2>1. q = HandleAnnounce(p, rx)
    BY <1>4 DEF Handle
  <2>2. Alike(HandleAnnounce(p, rx), p)
    BY <1>4, HandleAnnounceAlike
  <2> HIDE DEF q
  <2>3. ModeOK(n, HandleAnnounce(p, rx))
    BY <2>2, AlikeMode
  <2> QED
    BY <2>1, <2>2, <2>3 DEF Alike
<1>5. CASE rx \in Message /\ rx.type # "ANNOUNCE"
  <2> DEFINE h == HandleSignaling(p, rx)
  <2>1. q = h
    BY <1>5 DEF Handle, Message, SignalId
  <2>2. /\ ModeOK(n, h)
        /\ h.portState = p.portState
        /\ h.msgTmpWrMessageID = rx.type
        /\ h.wrPortState = p.wrPortState \/ rx.type = "SLAVE_PRESENT"
    BY <1>5, HandleSignalingMode
  <2> HIDE DEF q, h
  <2> QED
    BY <2>1, <2>2
<1> QED
  BY <1>1, <1>2, <1>3, <1>4, <1>5 DEF Received

-----------------------------------------------------------------------------
(* The end of the body of a WR state.                                      *)

\* Where the WR FSM runs, the mode of the port tells its configuration.
LEMMA RunningPlace ==
  ASSUME NEW n \in Node, NEW p, ModeOK(n, p), Running(p)
  PROVE  /\ n = SlaveNode => p.portState = "UNCALIBRATED" /\ p.wrMode = "WR_SLAVE"
         /\ n = MasterNode => p.portState = "MASTER" /\ p.wrMode = "WR_MASTER"
         /\ p.wrMode = "WR_SLAVE" => n = SlaveNode
         /\ p.wrMode = "WR_MASTER" => n = MasterNode
         /\ p.wrMode \in {"WR_SLAVE", "WR_MASTER"}
         /\ ~PhyCalibrationRequired => p.calibrated
BY DEF ModeOK, Placed, Requests, Running, Driven, Node

\* The retries are used up.
LEMMA GiveUpMode ==
  ASSUME NEW n \in Node, NEW p \in Port, ModeOK(n, p), Running(p)
  PROVE  ModeOK(n, GiveUp(p))
<1> DEFINE f == [p EXCEPT !.wrModeON = FALSE]
           q == ToWRState(f, "IDLE", 0)
           s == IF DisableFallback THEN "DISABLED"
                ELSE IF p.wrMode = "WR_MASTER" THEN "MASTER" ELSE "SLAVE"
           t == ToState(q, s)
<1>1. GiveUp(p) = InitWrData(t, "INIT")
  BY DEF GiveUp
<1>2. f \in Port
  BY BooleanUpdate
<1>3. /\ Stays(f, p) /\ f.portState = p.portState /\ f.wrMode = p.wrMode
      /\ ~f.wrModeON
  BY DEF Stays, Port
<1>4. s \in PortState /\ s # "UNCALIBRATED"
  BY DEF PortState
<1>5. /\ n = SlaveNode => s # "MASTER"
      /\ n = MasterNode => s \notin {"UNCALIBRATED", "SLAVE"}
  BY RunningPlace
<1> HIDE DEF f, q, s, t
<1>6. ModeOK(n, f)
  <2>1. Placed(n, f)
    BY <1>3 DEF ModeOK, Placed, Stays
  <2> QED
    BY <1>3, <2>1, RunningPlace, StaysMode DEF Stays
<1>7. q \in Port /\ q.wrPortState = "IDLE" /\ ModeOK(n, q)
  BY <1>2, <1>6, ToWRStateType, ToIdleMode DEF q, WrState
<1>8. ~PhyCalibrationRequired => q.calibrated
  <2>1. Kept(q, Left(f))
    BY <1>2, ToWRStateModes DEF q, Entered, WrState
  <2>2. ~PhyCalibrationRequired => Left(f).calibrated
    BY <1>2, <1>3, RunningPlace, InitWrDataModes DEF Left, Stays
  <2> QED
    BY <2>1, <2>2 DEF Kept
<1>9. MayBe(n, q, s)
  BY <1>5, <1>8 DEF MayBe
<1>10. t \in Port /\ ModeOK(n, t)
  BY <1>4, <1>7, <1>9, ToStateType, ToStateMode DEF t
<1> QED
  BY <1>1, <1>10, InitWrDataMode

\* The tail of doWRState(): the state is repeated, given up or left as it is.
LEMMA EndOfWRStateMode ==
  ASSUME NEW n \in Node, NEW p \in Port, ModeOK(n, p), p.wrPortState # "IDLE" => Running(p),
         NEW expired \in BOOLEAN, NEW hw \in Nat
  PROVE  ModeOK(n, EndOfWRState(p, expired, hw))
<1> DEFINE q == WrTimerExpired(p, expired, hw)
           e == [q EXCEPT !.msgTmpWrMessageID = "NULL_WR_TLV"]
           w == ToWRState(p, p.wrPortState, hw)
<1>1. \/ q = p
      \/ q = w /\ p.wrPortState # "IDLE"
      \/ q = GiveUp(p) /\ p.wrPortState # "IDLE"
  BY DEF WrTimerExpired
<1>2. EndOfWRState(p, expired, hw) = e
  BY DEF EndOfWRState
<1>3. p.wrPortState \in WrState
  BY PortFields
<1> HIDE DEF q, e, w
<1>4. p.wrPortState # "IDLE" => w \in Port /\ ModeOK(n, w)
  <2> SUFFICES ASSUME p.wrPortState # "IDLE" PROVE w \in Port /\ ModeOK(n, w)
    OBVIOUS
  <2>1. Left(p) = p
    BY DEF Left
  <2>2. p.portState # "INITIALIZING"
    BY DEF Running, Driven
  <2>3. MayEnter(n, p, p.wrPortState)
    BY <2>2 DEF MayEnter, ModeOK, Placed, InWrMode, PeerDeltas, PatternOff, Requests
  <2> QED
    BY <1>3, <2>1, <2>3, ToWRStateMode, ToWRStateModes DEF w
<1>5. p.wrPortState # "IDLE" => GiveUp(p) \in Port /\ ModeOK(n, GiveUp(p))
  BY GiveUpType, GiveUpMode
<1>6. q \in Port /\ ModeOK(n, q)
  BY <1>1, <1>4, <1>5
<1>7. /\ e.portState = q.portState /\ e.wrPortState = q.wrPortState
      /\ e.wrSubstate = q.wrSubstate
      /\ e.wrMode = q.wrMode /\ e.wrModeON = q.wrModeON /\ e.wrConfig = q.wrConfig
      /\ e.calibrated = q.calibrated /\ e.otherNodeDeltas = q.otherNodeDeltas
      /\ e.otherNodeCalSendPattern = q.otherNodeCalSendPattern
      /\ e.calibrationPattern = q.calibrationPattern /\ e.out = q.out
      /\ e.msgTmpWrMessageID = "NULL_WR_TLV"
  BY <1>6 DEF e, Port
<1>8. Placed(n, e) /\ InWrMode(e)
  BY <1>6, <1>7 DEF ModeOK, Placed, InWrMode
<1>9. PeerDeltas(n, e)
  BY <1>6, <1>7 DEF ModeOK, PeerDeltas
<1>10. PatternOff(n, e) /\ Requests(n, e)
  BY <1>6, <1>7 DEF ModeOK, PatternOff, Requests
<1> QED
  BY <1>2, <1>8, <1>9, <1>10 DEF ModeOK

-----------------------------------------------------------------------------
(* The bodies of doState().                                                *)

\* The frame a master reads was sent by the slave.
LEMMA FramesMode ==
  ASSUME TypedAndDriven, Modes, NEW n \in Node, NEW rx \in Frames(n)
  PROVE  rx \in Received /\ (n = MasterNode /\ rx \in Message => rx \in FromSlave)
<1>1. rx \in Received /\ (rx \in Message => chan[n] # <<>>)
  BY FramesType DEF TypedAndDriven
<1>2. rx \in Message => rx = Head(chan[n])
  BY DEF Frames, NoFrame, RecvError, DelayResp, Message, SignalId
<1>3. chan[MasterNode] \in Seq(FromSlave)
  BY DEF Modes
<1> QED
  BY <1>1, <1>2, <1>3

\* A full socket buffer drops frames and changes none.
LEMMA DeliverFromSlave ==
  ASSUME NEW queue \in Seq(FromSlave), NEW frames \in Seq(FromSlave)
  PROVE  Deliver(queue, frames) \in Seq(FromSlave)
<1> DEFINE all == queue \o frames
<1>1. all \in Seq(FromSlave) /\ Len(all) \in Nat /\ QueueCap \in Nat
  BY BoundAssumption
<1> HIDE DEF all
<1>2. ~(Len(all) <= QueueCap) => SubSeq(all, 1, QueueCap) \in Seq(FromSlave)
  BY <1>1
<1> QED
  BY <1>1, <1>2 DEF Deliver, all

\* The end of a turn keeps the invariant.
LEMMA FinishMode ==
  ASSUME TypedAndDriven, Modes, NEW n \in Node, NEW rx \in Frames(n),
         NEW p \in Port, ModeOK(n, p), Finish(n, rx, p)
  PROVE  Modes'
<1> DEFINE q == [p EXCEPT !.globalStateDecisionEvent = p.record_update,
                          !.out = <<>>,
                          !.fresh = FALSE]
<1>1. port' = [port EXCEPT ![n] = q]
  BY DEF Finish
<1>2. chan' = [m \in Node |-> CASE m = n /\ rx \in Message -> Tail(chan[m])
                                [] m # n /\ cable -> Deliver(chan[m], p.out)
                                [] OTHER -> chan[m]]
  BY DEF Finish
<1>4. /\ q.portState = p.portState /\ q.wrPortState = p.wrPortState
      /\ q.wrSubstate = p.wrSubstate
      /\ q.wrMode = p.wrMode /\ q.wrModeON = p.wrModeON /\ q.wrConfig = p.wrConfig
      /\ q.calibrated = p.calibrated /\ q.otherNodeDeltas = p.otherNodeDeltas
      /\ q.otherNodeCalSendPattern = p.otherNodeCalSendPattern
      /\ q.msgTmpWrMessageID = p.msgTmpWrMessageID
      /\ q.calibrationPattern = p.calibrationPattern /\ q.out = <<>>
  BY DEF Port
<1> HIDE DEF q
<1>5. ModeOK(n, q)
  <2>1. Placed(n, q) /\ InWrMode(q)
    BY <1>4 DEF ModeOK, Placed, InWrMode
  <2>2. PeerDeltas(n, q)
    BY <1>4 DEF ModeOK, PeerDeltas
  <2>3. PatternOff(n, q)
    BY <1>4 DEF ModeOK, PatternOff
  <2>4. Requests(n, q)
    BY <1>4 DEF ModeOK, Requests
  <2> QED
    BY <2>1, <2>2, <2>3, <2>4 DEF ModeOK
<1>6. \A m \in Node : ModeOK(m, port'[m])
  BY <1>1, <1>5 DEF TypedAndDriven, TypeOK, Modes
<1>7. chan'[MasterNode] \in Seq(FromSlave)
  <2>1. MasterNode \in Node /\ chan[MasterNode] \in Seq(FromSlave)
    BY DEF Node, Modes
  <2>2. CASE MasterNode = n /\ rx \in Message
    <3>1. chan[MasterNode] # <<>>
      BY <2>2, FramesType DEF TypedAndDriven
    <3>2. Tail(chan[MasterNode]) \in Seq(FromSlave)
      BY <2>1, <3>1
    <3> QED
      BY <1>2, <2>1, <2>2, <3>2
  <2>3. CASE MasterNode # n /\ cable
    <3>1. p.out \in Seq(FromSlave)
      BY <2>3 DEF Node, ModeOK, Requests
    <3> QED
      BY <1>2, <2>1, <2>3, <3>1, DeliverFromSlave
  <2>4. CASE ~(MasterNode = n /\ rx \in Message) /\ ~(MasterNode # n /\ cable)
    BY <1>2, <2>1, <2>4
  <2> QED
    BY <2>2, <2>3, <2>4
<1> QED
  BY <1>6, <1>7 DEF Modes

\* PTP_INITIALIZING.
LEMMA InitializingMode ==
  ASSUME TypedAndDriven, Modes, NEW n \in Node, NEW p \in Port, ModeOK(n, p), Initializing(n, p)
  PROVE  Modes'
BY DoInitType, DoInitMode, FinishMode, NoFrameFrames DEF Initializing

\* PTP_FAULTY; no port is in PTP_UNCALIBRATED without being a WR slave.
LEMMA PassThroughMode ==
  ASSUME TypedAndDriven, Modes, NEW n \in Node, NEW p \in Port, RoleOK(p), ModeOK(n, p),
         PassThrough(n, p)
  PROVE  Modes'
<1>1. p.portState = "FAULTY"
  BY DEF PassThrough, RoleOK, Driven
<1>2. Finish(n, NoFrame, ToState(p, "INITIALIZING"))
  BY <1>1 DEF PassThrough
<1>3. MayBe(n, p, "INITIALIZING") /\ "INITIALIZING" \in PortState
  BY DEF MayBe, PortState
<1>4. ToState(p, "INITIALIZING") \in Port /\ ModeOK(n, ToState(p, "INITIALIZING"))
  BY <1>3, ToStateType, ToStateMode
<1> QED
  BY <1>2, <1>4, FinishMode, NoFrameFrames

\* PTP_DISABLED.
LEMMA DisabledMode ==
  ASSUME TypedAndDriven, Modes, NEW n \in Node, NEW p \in Port, RoleOK(p), ModeOK(n, p),
         NEW rx \in Frames(n), Disabled(n, p, rx)
  PROVE  Modes'
<1>1. p.portState # "INITIALIZING" /\ p.wrPortState # "WR_LINK_ON"
  BY DEF Disabled, RoleOK, Driven
<1>2. Handle(p, rx) \in Port
  BY FramesMode, HandleType
<1>3. ModeOK(n, Handle(p, rx))
  BY <1>1, FramesMode, HandleMode
<1> QED
  BY <1>2, <1>3, FinishMode DEF Disabled

\* PTP_LISTENING of a master-only port.
LEMMA ListeningMasterMode ==
  ASSUME TypedAndDriven, Modes, NEW n \in Node, NEW p \in Port, ModeOK(n, p),
         ListeningMaster(n, p)
  PROVE  Modes'
<1> DEFINE m == M1(p)
<1>1. m \in Port /\ Alike(m, p)
  BY M1Type, BmcAlike
<1>2. Finish(n, NoFrame, ToState(m, "MASTER"))
  BY DEF ListeningMaster
<1> HIDE DEF m
<1>3. ModeOK(n, m)
  BY <1>1, AlikeMode
<1>4. MayBe(n, m, "MASTER") /\ "MASTER" \in PortState
  BY <1>1 DEF ListeningMaster, Alike, ModeOK, Placed, Requests, MayBe, PortState
<1>5. ToState(m, "MASTER") \in Port /\ ModeOK(n, ToState(m, "MASTER"))
  BY <1>1, <1>3, <1>4, ToStateType, ToStateMode
<1> QED
  BY <1>2, <1>5, FinishMode, NoFrameFrames

\* The announce receipt timeout leaves WR mode.
LEMMA AnnounceReceiptTimeoutMode ==
  ASSUME NEW n \in Node, NEW p \in Port, ModeOK(n, p), p.portState # "INITIALIZING",
         p.wrPortState = "IDLE"
  PROVE  ModeOK(n, AnnounceReceiptTimeout(p))
<1> DEFINE p1 == [p EXCEPT !.number_foreign_records = 0]
           p2 == [p1 EXCEPT !.foreign_record_i = 0]
           p3 == [p2 EXCEPT !.wrMode = "NON_WR"]
           p4 == [p3 EXCEPT !.wrModeON = FALSE]
           q == [p EXCEPT !.number_foreign_records = 0, !.foreign_record_i = 0,
                          !.wrMode = "NON_WR", !.wrModeON = FALSE]
<1>1. AnnounceReceiptTimeout(p) \in {q, ToState(q, "LISTENING")}
  BY DEF AnnounceReceiptTimeout
<1>2. q = p4
  OBVIOUS
<1>3. /\ Stays(q, p) /\ q.portState = p.portState /\ q.wrMode = "NON_WR"
      /\ ~q.wrModeON
  BY DEF Stays, Port
<1> HIDE DEF p1, p2, p3, p4, q
<1>4. p1 \in Port
  BY DataUpdate DEF p1
<1>5. 0 \in RecordIndex
  BY TableAssumption DEF RecordIndex
<1>6. p2 \in Port
  BY <1>4, <1>5, DataUpdate DEF p2
<1>7. p3 \in Port
  BY <1>6, StateUpdate DEF p3, WrMode
<1>8. q \in Port
  BY <1>2, <1>7, BooleanUpdate DEF p4
<1>9. Placed(n, q)
  BY <1>3 DEF Stays, ModeOK, Placed
<1>10. ~PhyCalibrationRequired => q.calibrated
  BY <1>3 DEF Stays, ModeOK, Requests
<1>11. ModeOK(n, q)
  BY <1>3, <1>9, <1>10, StaysMode
<1>12. MayBe(n, q, "LISTENING") /\ "LISTENING" \in PortState
  BY <1>10 DEF MayBe, PortState
<1>13. ModeOK(n, ToState(q, "LISTENING"))
  BY <1>8, <1>11, <1>12, ToStateMode
<1> QED
  BY <1>1, <1>11, <1>13

\* PTP_LISTENING and PTP_SLAVE of a slave-only port.
LEMMA ListeningOrSlaveMode ==
  ASSUME TypedAndDriven, Modes, NEW n \in Node, NEW p \in Port, RoleOK(p), ModeOK(n, p),
         NEW rx \in Frames(n), NEW expired \in BOOLEAN, ListeningOrSlave(n, p, rx, expired)
  PROVE  Modes'
<1> DEFINE q == Handle(p, rx)
<1>1. /\ p.wrPortState = "IDLE" /\ p.portState # "MASTER"
      /\ p.portState # "INITIALIZING" /\ p.wrPortState # "WR_LINK_ON"
  BY DEF ListeningOrSlave, RoleOK, Driven
<1>2. q \in Port /\ q.wrPortState = "IDLE"
  BY <1>1, FramesMode, HandleType
<1>3. ModeOK(n, q) /\ q.portState # "INITIALIZING"
  BY <1>1, FramesMode, HandleMode
<1>4. Finish(n, rx, IF expired THEN AnnounceReceiptTimeout(q) ELSE q)
  BY DEF ListeningOrSlave
<1> HIDE DEF q
<1>5. AnnounceReceiptTimeout(q) \in Port /\ ModeOK(n, AnnounceReceiptTimeout(q))
  BY <1>2, <1>3, AnnounceReceiptTimeoutType, AnnounceReceiptTimeoutMode
<1> QED
  BY <1>2, <1>3, <1>4, <1>5, FinishMode

\* A frame that is no CALIBRATE may be sent at any time.
LEMMA SendMode ==
  ASSUME NEW n \in Node, NEW p \in Port, ModeOK(n, p),
         NEW type \in SignalId \cup {"ANNOUNCE"}, NEW flag \in BOOLEAN,
         type \notin {"NULL_WR_TLV", "CALIBRATE"}
  PROVE  Send(p, type, flag) \in Port /\ ModeOK(n, Send(p, type, flag))
<1> DEFINE q == Send(p, type, flag)
           m == [type |-> type, flag |-> flag]
<1>1. q \in Port
  BY SendType
<1>2. /\ Kept(q, p) /\ q.wrPortState = p.wrPortState /\ q.wrSubstate = p.wrSubstate
      /\ q.wrModeON = p.wrModeON /\ q.calibrationPattern = p.calibrationPattern
  BY SendModes
<1>3. q.out = Append(p.out, m)
  BY SendModes
<1>4. m \in FromSlave
  BY DEF FromSlave, Message
<1> HIDE DEF q, m
<1>5. n = SlaveNode => q.out \in Seq(FromSlave)
  BY <1>3, <1>4 DEF ModeOK, Requests
<1>6. Placed(n, q) /\ InWrMode(q)
  BY <1>2 DEF Kept, ModeOK, Placed, InWrMode
<1>7. PeerDeltas(n, q)
  BY <1>2 DEF Kept, ModeOK, PeerDeltas
<1>8. PatternOff(n, q)
  BY <1>2 DEF Kept, ModeOK, PatternOff
<1>9. Requests(n, q)
  BY <1>2, <1>5 DEF Kept, ModeOK, Requests
<1> QED
  BY <1>1, <1>6, <1>7, <1>8, <1>9 DEF ModeOK, q

\* PTP_MASTER without a running WR FSM.
LEMMA MasterMode ==
  ASSUME TypedAndDriven, Modes, NEW n \in Node, NEW p \in Port, RoleOK(p), ModeOK(n, p),
         NEW rx \in Frames(n), NEW announcing \in BOOLEAN, Master(n, p, rx, announcing)
  PROVE  Modes'
<1> DEFINE q == Handle(p, rx)
           a == Send(q, "ANNOUNCE", q.wrModeON)
<1>1. p.portState # "INITIALIZING" /\ p.wrPortState # "WR_LINK_ON"
  BY DEF Master, RoleOK, Driven
<1>2. q \in Port
  BY FramesMode, HandleType
<1>3. ModeOK(n, q)
  BY <1>1, FramesMode, HandleMode
<1>4. Finish(n, rx, IF announcing THEN a ELSE q)
  BY DEF Master
<1> HIDE DEF q
<1>5. q.wrModeON \in BOOLEAN
  BY <1>2, PortFields
<1>6. a \in Port /\ ModeOK(n, a)
  BY <1>2, <1>3, <1>5, SendMode
<1> HIDE DEF a
<1> QED
  BY <1>2, <1>3, <1>4, <1>6, FinishMode

-----------------------------------------------------------------------------
(* The bodies of doWRState().                                              *)

\* A running port that handles a frame goes on running.
LEMMA HandleRunning ==
  ASSUME TypedAndDriven, Modes, NEW n \in Node, NEW p \in Port, ModeOK(n, p), Running(p),
         p.wrPortState # "WR_LINK_ON", NEW rx \in Frames(n)
  PROVE  LET q == Handle(p, rx)
         IN  /\ q \in Port /\ Running(q) /\ ModeOK(n, q)
             /\ q.wrPortState = p.wrPortState \/ q.msgTmpWrMessageID = "SLAVE_PRESENT"
<1>1. p.portState # "INITIALIZING"
  BY DEF Running, Driven
<1>2. Handle(p, rx) \in Port /\ Running(Handle(p, rx))
  BY FramesMode, HandleType
<1> QED
  BY <1>1, <1>2, FramesMode, HandleMode

\* The end of a WR body.
LEMMA FinishWRMode ==
  ASSUME TypedAndDriven, Modes, NEW n \in Node, NEW rx \in Frames(n), NEW p \in Port,
         ModeOK(n, p), Running(p) \/ (RoleOK(p) /\ p.wrPortState = "IDLE"),
         NEW expired \in BOOLEAN, NEW hw \in Nat,
         Finish(n, rx, EndOfWRState(p, expired, hw))
  PROVE  Modes'
<1>1. EndOfWRState(p, expired, hw) \in Port
  BY EndOfWRStateType
<1>2. ModeOK(n, EndOfWRState(p, expired, hw))
  BY EndOfWRStateMode
<1> QED
  BY <1>1, <1>2, FinishMode

\* A running port in another state than WRS_WR_LINK_ON is not in WR mode.
LEMMA RunningNotOn ==
  ASSUME NEW n \in Node, NEW p, ModeOK(n, p), Running(p), p.wrPortState # "WR_LINK_ON"
  PROVE  ~p.wrModeON /\ Left(p) = p /\ p.portState # "INITIALIZING"
BY DEF ModeOK, InWrMode, Running, Driven, Left

\* Entering a state from a running one.
LEMMA ToWRStateNext ==
  ASSUME NEW n \in Node, NEW p \in Port, ModeOK(n, p), Running(p),
         NEW s \in WrState, s # "IDLE", NEW hw \in Nat, MayEnter(n, p, s)
  PROVE  LET q == ToWRState(p, s, hw)
         IN  q \in Port /\ Running(q) /\ ModeOK(n, q)
<1>1. Left(p) = p
  BY DEF Running, Left
<1> QED
  BY <1>1, ToWRStateMode, ToWRStateRunning

\* WRS_PRESENT.
LEMMA WrPresentMode ==
  ASSUME TypedAndDriven, Modes, NEW n \in Node, NEW p \in Port, RoleOK(p), ModeOK(n, p),
         NEW rx \in Frames(n), NEW expired \in BOOLEAN, NEW hw \in Nat, NEW hwAgain \in Nat,
         WrPresent(n, p, rx, expired, hw, hwAgain)
  PROVE  Modes'
<1> DEFINE q == Handle(p, rx)
           w == ToWRState(q, "S_LOCK", hw)
<1>1. Running(p) /\ p.wrPortState = "PRESENT"
  BY InWRStateRunning DEF WrPresent, InWRState
<1>2. /\ q \in Port /\ Running(q) /\ ModeOK(n, q)
      /\ q.wrPortState = p.wrPortState \/ q.msgTmpWrMessageID = "SLAVE_PRESENT"
  BY <1>1, HandleRunning
<1>3. PICK r : /\ r = q \/ (r = w /\ q.msgTmpWrMessageID = "LOCK")
               /\ Finish(n, rx, EndOfWRState(r, expired, hwAgain))
  BY DEF WrPresent
<1> HIDE DEF q, w
<1>4. q.msgTmpWrMessageID = "LOCK" => w \in Port /\ Running(w) /\ ModeOK(n, w)
  <2> SUFFICES ASSUME q.msgTmpWrMessageID = "LOCK"
               PROVE  w \in Port /\ Running(w) /\ ModeOK(n, w)
    OBVIOUS
  <2>1. q.wrPortState = "PRESENT"
    BY <1>1, <1>2
  <2>2. ~q.wrModeON /\ q.portState # "INITIALIZING"
    BY <1>2, <2>1, RunningNotOn
  <2>3. MayEnter(n, q, "S_LOCK")
    BY <1>2, <2>1, <2>2 DEF MayEnter, ModeOK, Placed, Requests
  <2> QED
    BY <1>2, <2>3, ToWRStateNext DEF w, WrState
<1> QED
  BY <1>2, <1>3, <1>4, FinishWRMode

\* WRS_M_LOCK.
LEMMA WrMLockMode ==
  ASSUME TypedAndDriven, Modes, NEW n \in Node, NEW p \in Port, RoleOK(p), ModeOK(n, p),
         NEW rx \in Frames(n), NEW expired \in BOOLEAN, NEW hw \in Nat, NEW hwAgain \in Nat,
         WrMLock(n, p, rx, expired, hw, hwAgain)
  PROVE  Modes'
<1> DEFINE q == Handle(p, rx)
           w == ToWRState(q, "CALIBRATION", hw)
<1>1. Running(p) /\ p.wrPortState = "M_LOCK"
  BY InWRStateRunning DEF WrMLock, InWRState
<1>2. /\ q \in Port /\ Running(q) /\ ModeOK(n, q)
      /\ q.wrPortState = p.wrPortState \/ q.msgTmpWrMessageID = "SLAVE_PRESENT"
  BY <1>1, HandleRunning
<1>3. PICK r : /\ r = q \/ (r = w /\ q.msgTmpWrMessageID = "LOCKED")
               /\ Finish(n, rx, EndOfWRState(r, expired, hwAgain))
  BY DEF WrMLock
<1> HIDE DEF q, w
<1>4. q.msgTmpWrMessageID = "LOCKED" => w \in Port /\ Running(w) /\ ModeOK(n, w)
  <2> SUFFICES ASSUME q.msgTmpWrMessageID = "LOCKED"
               PROVE  w \in Port /\ Running(w) /\ ModeOK(n, w)
    OBVIOUS
  <2>1. q.wrPortState = "M_LOCK"
    BY <1>1, <1>2
  <2>2. ~q.wrModeON /\ q.portState # "INITIALIZING"
    BY <1>2, <2>1, RunningNotOn
  <2>3. MayEnter(n, q, "CALIBRATION")
    BY <1>2, <2>1, <2>2 DEF MayEnter, ModeOK, Placed
  <2> QED
    BY <1>2, <2>3, ToWRStateNext DEF w, WrState
<1> QED
  BY <1>2, <1>3, <1>4, FinishWRMode

\* WRS_LOCKED.
LEMMA WrLockedMode ==
  ASSUME TypedAndDriven, Modes, NEW n \in Node, NEW p \in Port, RoleOK(p), ModeOK(n, p),
         NEW rx \in Frames(n), NEW expired \in BOOLEAN, NEW hw \in Nat, NEW hwAgain \in Nat,
         WrLocked(n, p, rx, expired, hw, hwAgain)
  PROVE  Modes'
<1> DEFINE q == Handle(p, rx)
           w == ToWRState(q, "RESP_CALIB_REQ", hw)
<1>1. Running(p) /\ p.wrPortState = "LOCKED"
  BY InWRStateRunning DEF WrLocked, InWRState
<1>2. /\ q \in Port /\ Running(q) /\ ModeOK(n, q)
      /\ q.wrPortState = p.wrPortState \/ q.msgTmpWrMessageID = "SLAVE_PRESENT"
  BY <1>1, HandleRunning
<1>3. PICK r : /\ r = q \/ (r = w /\ q.msgTmpWrMessageID = "CALIBRATE")
               /\ Finish(n, rx, EndOfWRState(r, expired, hwAgain))
  BY DEF WrLocked
<1> HIDE DEF q, w
<1>4. q.msgTmpWrMessageID = "CALIBRATE" => w \in Port /\ Running(w) /\ ModeOK(n, w)
  <2> SUFFICES ASSUME q.msgTmpWrMessageID = "CALIBRATE"
               PROVE  w \in Port /\ Running(w) /\ ModeOK(n, w)
    OBVIOUS
  <2>1. q.wrPortState = "LOCKED"
    BY <1>1, <1>2
  <2>2. ~q.wrModeON /\ q.portState # "INITIALIZING"
    BY <1>2, <2>1, RunningNotOn
  <2>3. MayEnter(n, q, "RESP_CALIB_REQ")
    BY <1>2, <2>1, <2>2 DEF MayEnter, ModeOK, Placed, Requests
  <2> QED
    BY <1>2, <2>3, ToWRStateNext DEF w, WrState
<1> QED
  BY <1>2, <1>3, <1>4, FinishWRMode

\* WRS_CALIBRATED: the master's answer is what switches the slave's WR mode on.
LEMMA WrCalibratedMode ==
  ASSUME TypedAndDriven, Modes, NEW n \in Node, NEW p \in Port, RoleOK(p), ModeOK(n, p),
         NEW rx \in Frames(n), NEW expired \in BOOLEAN, NEW hw \in Nat, NEW hwAgain \in Nat,
         WrCalibrated(n, p, rx, expired, hw, hwAgain)
  PROVE  Modes'
<1> DEFINE q == Handle(p, rx)
           w == ToWRState(q, "RESP_CALIB_REQ", hw)
           o == ToWRState(q, "WR_LINK_ON", 0)
           asked == q.msgTmpWrMessageID = "CALIBRATE" /\ q.wrMode = "WR_MASTER"
           on == q.msgTmpWrMessageID = "WR_MODE_ON" /\ q.wrMode = "WR_SLAVE"
<1>1. Running(p) /\ p.wrPortState = "CALIBRATED"
  BY InWRStateRunning DEF WrCalibrated, InWRState
<1>2. /\ q \in Port /\ Running(q) /\ ModeOK(n, q)
      /\ q.wrPortState = p.wrPortState \/ q.msgTmpWrMessageID = "SLAVE_PRESENT"
  BY <1>1, HandleRunning
<1>3. PICK r : /\ r = q \/ (r = w /\ asked) \/ (r = o /\ on)
               /\ Finish(n, rx, EndOfWRState(r, expired, hwAgain))
  BY DEF WrCalibrated
<1> HIDE DEF q, w, o
<1>4. asked => w \in Port /\ Running(w) /\ ModeOK(n, w)
  <2> SUFFICES ASSUME asked PROVE w \in Port /\ Running(w) /\ ModeOK(n, w)
    OBVIOUS
  <2>1. q.wrPortState = "CALIBRATED"
    BY <1>1, <1>2
  <2>2. ~q.wrModeON /\ q.portState # "INITIALIZING"
    BY <1>2, <2>1, RunningNotOn
  <2>3. n = MasterNode /\ n # SlaveNode
    BY <1>2, RunningPlace, NodesAssumption
  <2>4. MayEnter(n, q, "RESP_CALIB_REQ")
    BY <1>2, <2>1, <2>2, <2>3 DEF MayEnter, ModeOK, PatternOff
  <2> QED
    BY <1>2, <2>4, ToWRStateNext DEF w, WrState
<1>5. on => o \in Port /\ Running(o) /\ ModeOK(n, o)
  <2> SUFFICES ASSUME on PROVE o \in Port /\ Running(o) /\ ModeOK(n, o)
    OBVIOUS
  <2>1. q.wrPortState = "CALIBRATED"
    BY <1>1, <1>2
  <2>2. n = SlaveNode
    BY <1>2, RunningPlace
  <2>3. MayEnter(n, q, "WR_LINK_ON")
    BY <1>2, <2>1, <2>2 DEF MayEnter, ModeOK, PatternOff, PeerDeltas
  <2> QED
    BY <1>2, <2>3, ToWRStateNext DEF o, WrState
<1> QED
  BY <1>2, <1>3, <1>4, <1>5, FinishWRMode

\* WRS_S_LOCK.
LEMMA WrSLockMode ==
  ASSUME TypedAndDriven, Modes, NEW n \in Node, NEW p \in Port, RoleOK(p), ModeOK(n, p),
         NEW expired \in BOOLEAN, NEW hw \in Nat, NEW hwAgain \in Nat,
         WrSLock(n, p, expired, hw, hwAgain)
  PROVE  Modes'
<1> DEFINE done == p.wrSubstate + hw
           d == [p EXCEPT !.wrSubstate = done]
           w == ToWRState(p, "LOCKED", 0)
<1>1. Running(p) /\ p.wrPortState = "S_LOCK"
  BY InWRStateRunning DEF WrSLock, InWRState
<1>2. p.wrSubstate \in WrSubstate
  BY PortFields
<1>3. PICK r : /\ r = p \/ r = w \/ (done < 3 /\ r = d)
               /\ Finish(n, NoFrame, EndOfWRState(r, expired, hwAgain))
  <2>1. done < 3 \/ done >= 3
    BY <1>2 DEF WrSubstate
  <2> QED
    BY <2>1 DEF WrSLock
<1>4. done < 3 => done \in WrSubstate
  BY <1>2 DEF WrSubstate
<1>5. /\ Kept(d, p) /\ d.wrPortState = p.wrPortState /\ d.wrModeON = p.wrModeON
      /\ d.calibrationPattern = p.calibrationPattern /\ d.out = p.out
      /\ d.wrSlaveRole = p.wrSlaveRole
  BY DEF Kept, Port
<1> HIDE DEF done, d, w
<1>6. done < 3 => d \in Port
  BY <1>4, StateUpdate DEF d
<1>7. Running(d)
  BY <1>1, <1>5 DEF Running, Driven, Kept
<1>8. ModeOK(n, d)
  <2>1. Placed(n, d) /\ InWrMode(d)
    BY <1>5 DEF Kept, ModeOK, Placed, InWrMode
  <2>2. PeerDeltas(n, d)
    BY <1>1, <1>5 DEF Kept, ModeOK, PeerDeltas
  <2>3. PatternOff(n, d)
    BY <1>1, <1>5 DEF Kept, ModeOK, PatternOff
  <2>4. Requests(n, d)
    BY <1>5 DEF Kept, ModeOK, Requests
  <2> QED
    BY <2>1, <2>2, <2>3, <2>4 DEF ModeOK
<1>9. w \in Port /\ Running(w) /\ ModeOK(n, w)
  <2>1. ~p.wrModeON /\ p.portState # "INITIALIZING"
    BY <1>1, RunningNotOn
  <2>2. MayEnter(n, p, "LOCKED")
    BY <1>1, <2>1 DEF MayEnter, ModeOK, Placed, Requests
  <2> QED
    BY <1>1, <2>2, ToWRStateNext DEF w, WrState
<1> QED
  BY <1>1, <1>3, <1>6, <1>7, <1>8, <1>9, FinishWRMode, NoFrameFrames

\* The substates of WRS_CALIBRATION switch the pattern off before the end.
LEMMA CalibrateMode ==
  ASSUME NEW n \in Node, NEW p \in Port, ModeOK(n, p), p.wrPortState = "CALIBRATION",
         NEW hw \in Nat
  PROVE  LET q == Calibrate(p, hw)
         IN  ModeOK(n, q) /\ (q.wrSubstate >= 8 => ~q.calibrationPattern)
<1> DEFINE q == Calibrate(p, hw)
           done == AtMost(p.wrSubstate + hw, 8)
           pattern == IF p.wrSubstate <= 4 /\ done >= 5 THEN FALSE
                      ELSE p.calibrationPattern \/ (p.wrSubstate = 0 /\ done > 0)
<1>1. p.wrSubstate \in 0 .. 8
  BY PortFields DEF WrSubstate
<1>2. done \in 0 .. 8 /\ p.wrSubstate <= done
  BY <1>1 DEF AtMost
<1>3. /\ Kept(q, p) /\ q.wrPortState = p.wrPortState /\ q.wrModeON = p.wrModeON
      /\ q.out = p.out /\ q.wrSubstate = done /\ q.calibrationPattern = pattern
  BY DEF Calibrate, Kept, Port
<1>4. done >= 5 => ~pattern
  <2>1. CASE p.wrSubstate <= 4
    BY <2>1
  <2>2. CASE p.wrSubstate >= 5
    BY <1>1, <2>2 DEF ModeOK, PatternOff
  <2> QED
    BY <1>1, <2>1, <2>2
<1> HIDE DEF q, done, pattern
<1>5. Placed(n, q) /\ InWrMode(q)
  BY <1>3 DEF Kept, ModeOK, Placed, InWrMode
<1>6. PeerDeltas(n, q)
  BY <1>3 DEF Kept, ModeOK, PeerDeltas
<1>7. PatternOff(n, q)
  BY <1>3, <1>4 DEF PatternOff
<1>8. Requests(n, q)
  BY <1>3 DEF Kept, ModeOK, Requests
<1>9. q.wrSubstate >= 8 => ~q.calibrationPattern
  BY <1>2, <1>3, <1>4
<1> QED
  BY <1>5, <1>6, <1>7, <1>8, <1>9 DEF ModeOK, q

\* WRS_CALIBRATION.
LEMMA WrCalibrationMode ==
  ASSUME TypedAndDriven, Modes, NEW n \in Node, NEW p \in Port, RoleOK(p), ModeOK(n, p),
         NEW expired \in BOOLEAN, NEW hw \in Nat, NEW hwAgain \in Nat,
         WrCalibration(n, p, expired, hw, hwAgain)
  PROVE  Modes'
<1> DEFINE q == Calibrate(p, hw)
           s == Send(q, "CALIBRATED", FALSE)
           w == ToWRState(s, "CALIBRATED", 0)
           c == [w EXCEPT !.calibrated = TRUE]
<1>1. Running(p) /\ p.wrPortState = "CALIBRATION"
  BY InWRStateRunning DEF WrCalibration, InWRState
<1>2. /\ q \in Port /\ SameMachine(q, p)
      /\ ModeOK(n, q) /\ (q.wrSubstate >= 8 => ~q.calibrationPattern)
  BY <1>1, CalibrateType, CalibrateMode
<1>3. q.wrSubstate \in 0 .. 8
  BY <1>2, PortFields DEF WrSubstate
<1>4. PICK r : /\ r = q \/ (r = c /\ q.wrSubstate >= 8)
               /\ Finish(n, NoFrame, EndOfWRState(r, expired, hwAgain))
  <2>1. Finish(n, NoFrame, EndOfWRState(IF q.wrSubstate < 8 THEN q ELSE c, expired, hwAgain))
    BY DEF WrCalibration
  <2>2. q.wrSubstate < 8 \/ q.wrSubstate >= 8
    BY <1>3
  <2> HIDE DEF q, c
  <2>3. CASE q.wrSubstate < 8
    BY <2>1, <2>3
  <2>4. CASE q.wrSubstate >= 8
    <3>1. ~(q.wrSubstate < 8)
      BY <1>3, <2>4
    <3> QED
      BY <2>1, <2>4, <3>1
  <2> QED
    BY <2>2, <2>3, <2>4
<1>5. Running(q) /\ q.wrPortState = "CALIBRATION"
  BY <1>1, <1>2, SameMachineRole DEF SameMachine
<1> HIDE DEF q, s, w, c
<1>6. q.wrSubstate >= 8 => c \in Port /\ Running(c) /\ ModeOK(n, c)
  <2> SUFFICES ASSUME q.wrSubstate >= 8
               PROVE  c \in Port /\ Running(c) /\ ModeOK(n, c)
    OBVIOUS
  <2>1. s \in Port /\ ModeOK(n, s)
    BY <1>2, SendMode DEF s, SignalId
  <2>2. /\ Kept(s, q) /\ s.wrPortState = q.wrPortState
        /\ s.calibrationPattern = q.calibrationPattern
    BY <1>2, SendModes DEF s
  <2>3. s.wrSlaveRole = q.wrSlaveRole
    BY <1>2 DEF s, Send, Port
  <2>4. Running(s)
    BY <1>5, <2>2, <2>3 DEF Running, Driven, Kept
  <2>5. ~s.wrModeON
    BY <1>5, <2>1, <2>2, <2>4, RunningNotOn
  <2>6. n = SlaveNode => s.otherNodeDeltas
    BY <1>5, <2>1, <2>2 DEF ModeOK, PeerDeltas
  <2>7. MayEnter(n, s, "CALIBRATED")
    BY <1>2, <2>2, <2>5, <2>6 DEF MayEnter
  <2>8. w \in Port /\ Running(w) /\ ModeOK(n, w) /\ w.wrPortState = "CALIBRATED"
    <3>1. "CALIBRATED" \in WrState
      BY DEF WrState
    <3>2. w \in Port /\ Running(w) /\ ModeOK(n, w)
      BY <2>1, <2>4, <2>7, <3>1, ToWRStateNext DEF w
    <3>3. w.wrPortState = "CALIBRATED" \/ "CALIBRATED" = "S_LOCK"
      BY <2>1, <3>1, ToWRStateModes DEF w
    <3> QED
      BY <3>2, <3>3
  <2>9. c \in Port
    BY <2>8, BooleanUpdate DEF c
  <2>10. /\ c.portState = w.portState /\ c.wrPortState = w.wrPortState
         /\ c.wrSubstate = w.wrSubstate /\ c.wrSlaveRole = w.wrSlaveRole
         /\ c.wrMode = w.wrMode /\ c.wrModeON = w.wrModeON /\ c.wrConfig = w.wrConfig
         /\ c.otherNodeDeltas = w.otherNodeDeltas
         /\ c.otherNodeCalSendPattern = w.otherNodeCalSendPattern
         /\ c.msgTmpWrMessageID = w.msgTmpWrMessageID
         /\ c.calibrationPattern = w.calibrationPattern /\ c.out = w.out
         /\ c.calibrated
    BY <2>8 DEF c, Port
  <2>11. Running(c)
    BY <2>8, <2>10 DEF Running, Driven
  <2>12. Placed(n, c) /\ InWrMode(c)
    BY <2>8, <2>10 DEF ModeOK, Placed, InWrMode
  <2>13. PeerDeltas(n, c)
    BY <2>8, <2>10 DEF ModeOK, PeerDeltas
  <2>14. PatternOff(n, c)
    BY <2>8, <2>10 DEF ModeOK, PatternOff
  <2>15. Requests(n, c)
    BY <2>8, <2>10 DEF ModeOK, Requests
  <2> QED
    BY <2>9, <2>11, <2>12, <2>13, <2>14, <2>15 DEF ModeOK
<1> QED
  BY <1>2, <1>4, <1>5, <1>6, FinishWRMode, NoFrameFrames

\* The last substates of WRS_RESP_CALIB_REQ: the peer has sent its deltas, and
\* a master that does not have to stop the pattern does not send it.
LEMMA AfterCalibratedMode ==
  ASSUME NEW n \in Node, NEW p \in Port, ModeOK(n, p), Running(p),
         p.wrPortState = "RESP_CALIB_REQ", NEW hw \in Nat
  PROVE  LET q == AfterCalibrated(p, hw)
         IN  q \in Port /\ Running(q) /\ ModeOK(n, q)
<1> DEFINE next == IF p.wrMode = "WR_MASTER" THEN "WR_LINK_ON" ELSE "CALIBRATION"
           o == [p EXCEPT !.calibrationPattern = FALSE]
           q == AfterCalibrated(p, hw)
<1>1. \/ q = ToWRState(p, next, hw) /\ p.wrSubstate = 3
      \/ q = ToWRState(o, next, hw - 1) /\ p.wrSubstate = 2 /\ hw > 0
      \/ q = p
  BY DEF AfterCalibrated
<1>2. next \in WrState /\ next # "IDLE"
  BY DEF WrState
<1>3. next = IF n = MasterNode THEN "WR_LINK_ON" ELSE "CALIBRATION"
  BY RunningPlace, NodesAssumption DEF Node
<1>4. ~p.wrModeON /\ p.portState # "INITIALIZING"
  BY RunningNotOn
<1> HIDE DEF next, o, q
<1>5. CASE q = ToWRState(p, next, hw) /\ p.wrSubstate = 3
  <2>1. p.otherNodeDeltas /\ (n = MasterNode => ~p.calibrationPattern)
    BY <1>5 DEF ModeOK, PeerDeltas, PatternOff
  <2>2. MayEnter(n, p, next)
    BY <1>3, <1>4, <2>1 DEF MayEnter, ModeOK, Requests
  <2>3. ToWRState(p, next, hw) \in Port /\ Running(ToWRState(p, next, hw))
        /\ ModeOK(n, ToWRState(p, next, hw))
    BY <1>2, <2>2, ToWRStateNext
  <2> QED
    BY <1>5, <2>3 DEF q
<1>6. CASE q = ToWRState(o, next, hw - 1) /\ p.wrSubstate = 2 /\ hw > 0
  <2>1. p.otherNodeDeltas
    BY <1>6 DEF ModeOK, PeerDeltas
  <2>2. o \in Port
    BY BooleanUpdate DEF o
  <2>3. /\ Kept(o, p) /\ o.wrPortState = p.wrPortState /\ o.wrSubstate = p.wrSubstate
        /\ o.wrModeON = p.wrModeON /\ o.out = p.out /\ o.wrSlaveRole = p.wrSlaveRole
        /\ ~o.calibrationPattern
    BY DEF o, Kept, Port
  <2>4. Running(o)
    BY <2>3 DEF Running, Driven, Kept
  <2>5. Placed(n, o) /\ InWrMode(o)
    BY <2>3 DEF Kept, ModeOK, Placed, InWrMode
  <2>6. PeerDeltas(n, o)
    BY <2>3 DEF Kept, ModeOK, PeerDeltas
  <2>7. PatternOff(n, o)
    BY <2>3 DEF Kept, ModeOK, PatternOff
  <2>8. Requests(n, o)
    BY <2>3 DEF Kept, ModeOK, Requests
  <2>9. ModeOK(n, o)
    BY <2>5, <2>6, <2>7, <2>8 DEF ModeOK
  <2>10. MayEnter(n, o, next)
    BY <1>3, <1>4, <2>1, <2>3, <2>9 DEF MayEnter, Kept, ModeOK, Requests
  <2>11. hw - 1 \in Nat
    BY <1>6
  <2>12. ToWRState(o, next, hw - 1) \in Port /\ Running(ToWRState(o, next, hw - 1))
         /\ ModeOK(n, ToWRState(o, next, hw - 1))
    BY <1>2, <2>2, <2>4, <2>9, <2>10, <2>11, ToWRStateNext
  <2> QED
    BY <1>6, <2>12 DEF q
<1>7. CASE q = p
  BY <1>7 DEF q
<1> QED
  BY <1>1, <1>5, <1>6, <1>7

\* A port that waits in WRS_RESP_CALIB_REQ has sent the pattern only if the
\* peer asked for it.
LEMMA WaitingMode ==
  ASSUME NEW n \in Node, NEW p \in Port, ModeOK(n, p), Running(p),
         p.wrPortState = "RESP_CALIB_REQ", p.wrSubstate \in {0, 1}
  PROVE  LET q == SendPattern(ToSubstate(p, "RESP_CALIB_REQ", 1), p.wrSubstate = 0)
         IN  q \in Port /\ Running(q) /\ ModeOK(n, q) /\ q.wrPortState = "RESP_CALIB_REQ"
<1> DEFINE started == (p.wrSubstate = 0)
           t == ToSubstate(p, "RESP_CALIB_REQ", 1)
           q == SendPattern(t, started)
<1>1. /\ "RESP_CALIB_REQ" \in WrState /\ 1 \in WrSubstate /\ started \in BOOLEAN
  BY DEF WrState, WrSubstate
<1>2. /\ t \in Port /\ Kept(t, p) /\ t.wrPortState = "RESP_CALIB_REQ" /\ t.wrSubstate = 1
      /\ t.wrModeON = p.wrModeON /\ t.calibrationPattern = p.calibrationPattern
      /\ t.out = p.out
  BY <1>1, ToSubstateType, ToSubstateModes
<1>3. SameRole(t, p)
  BY <1>1, ToSubstateType
<1> HIDE DEF started, t
<1>4. /\ q \in Port /\ Kept(q, t) /\ q.wrPortState = t.wrPortState
      /\ q.wrSubstate = t.wrSubstate /\ q.wrModeON = t.wrModeON /\ q.out = t.out
      /\ q.calibrationPattern = (t.calibrationPattern \/ started)
  BY <1>1, <1>2, SendPatternType, SendPatternModes
<1>5. SameMachine(q, t)
  BY <1>1, <1>2, SendPatternType DEF SameMachine
<1> HIDE DEF q
<1>6. Running(q)
  <2>1. Running(t)
    BY <1>2, <1>3 DEF Running, Driven, SameRole
  <2> QED
    BY <1>5, <2>1, SameMachineRole
<1>7. Placed(n, q) /\ InWrMode(q)
  BY <1>2, <1>4 DEF Kept, ModeOK, Placed, InWrMode
<1>8. PeerDeltas(n, q)
  BY <1>2, <1>4 DEF Kept, ModeOK, PeerDeltas
<1>9. PatternOff(n, q)
  <2>1. q.wrPortState = "RESP_CALIB_REQ" /\ q.wrSubstate = 1
        /\ q.otherNodeCalSendPattern = p.otherNodeCalSendPattern
    BY <1>2, <1>4 DEF Kept
  <2>2. q.calibrationPattern => p.calibrationPattern \/ p.wrSubstate = 0
    BY <1>2, <1>4, Zenon DEF started
  <2>3. n = MasterNode /\ (p.calibrationPattern \/ p.wrSubstate = 0) =>
          p.otherNodeCalSendPattern
    BY DEF ModeOK, PatternOff
  <2> QED
    BY <2>1, <2>2, <2>3 DEF PatternOff
<1>10. Requests(n, q)
  BY <1>2, <1>4 DEF Kept, ModeOK, Requests
<1> QED
  BY <1>2, <1>4, <1>6, <1>7, <1>8, <1>9, <1>10 DEF ModeOK, q, t, started

\* The peer is calibrated: the port knows its deltas, and a master that was
\* not asked for the pattern has none to switch off.
LEMMA AnsweredMode ==
  ASSUME NEW n \in Node, NEW p \in Port, ModeOK(n, p), Running(p),
         p.wrPortState = "RESP_CALIB_REQ", p.msgTmpWrMessageID = "CALIBRATED",
         NEW i \in {2, 3}, i = 3 => ~p.otherNodeCalSendPattern
  PROVE  LET q == ToSubstate(p, p.wrPortState, i)
         IN  q \in Port /\ Running(q) /\ ModeOK(n, q) /\ q.wrPortState = "RESP_CALIB_REQ"
<1> DEFINE q == ToSubstate(p, p.wrPortState, i)
<1>1. i \in WrSubstate /\ p.wrPortState \in WrState
  BY DEF WrSubstate, WrState
<1>2. /\ q \in Port /\ Kept(q, p) /\ q.wrPortState = "RESP_CALIB_REQ" /\ q.wrSubstate = i
      /\ q.wrModeON = p.wrModeON /\ q.calibrationPattern = p.calibrationPattern
      /\ q.out = p.out /\ SameRole(q, p)
  BY <1>1, ToSubstateType, ToSubstateModes
<1> HIDE DEF q
<1>3. Running(q)
  BY <1>2 DEF Running, Driven, SameRole
<1>4. Placed(n, q) /\ InWrMode(q)
  BY <1>2 DEF Kept, ModeOK, Placed, InWrMode
<1>5. PeerDeltas(n, q)
  BY <1>2 DEF Kept, ModeOK, PeerDeltas
<1>6. PatternOff(n, q)
  BY <1>2 DEF Kept, ModeOK, PatternOff
<1>7. Requests(n, q)
  BY <1>2 DEF Kept, ModeOK, Requests
<1> QED
  BY <1>2, <1>3, <1>4, <1>5, <1>6, <1>7 DEF ModeOK, q

\* WRS_RESP_CALIB_REQ, when a frame is read.
LEMMA WrRespCalibReqMode ==
  ASSUME TypedAndDriven, Modes, NEW n \in Node, NEW p \in Port, RoleOK(p), ModeOK(n, p),
         NEW rx \in Frames(n), NEW expired \in BOOLEAN, NEW hw \in Nat, NEW hwAgain \in Nat,
         WrRespCalibReq(n, p, rx, expired, hw, hwAgain)
  PROVE  Modes'
<1> DEFINE waiting == SendPattern(ToSubstate(p, "RESP_CALIB_REQ", 1), p.wrSubstate = 0)
           left == IF p.wrSubstate = 0 THEN hw - 1 ELSE hw
           q == Handle(waiting, rx)
           i == IF q.otherNodeCalSendPattern THEN 2 ELSE 3
           u == ToSubstate(q, q.wrPortState, i)
           a == AfterCalibrated(u, left)
<1>1. Running(p) /\ p.wrPortState = "RESP_CALIB_REQ"
  BY InWRStateRunning DEF WrRespCalibReq, InWRState
<1>2. p.wrSubstate \in {0, 1} /\ left \in Nat
  BY DEF WrRespCalibReq
<1>3. PICK r : /\ r = q \/ (r = a /\ q.msgTmpWrMessageID = "CALIBRATED")
               /\ Finish(n, rx, EndOfWRState(r, expired, hwAgain))
  BY DEF WrRespCalibReq
<1>4. i \in {2, 3} /\ (i = 3 => ~q.otherNodeCalSendPattern)
  OBVIOUS
<1>5. /\ waiting \in Port /\ Running(waiting) /\ ModeOK(n, waiting)
      /\ waiting.wrPortState = "RESP_CALIB_REQ"
  BY <1>1, <1>2, WaitingMode
<1> HIDE DEF waiting, left, i
<1>6. /\ q \in Port /\ Running(q) /\ ModeOK(n, q)
      /\ q.wrPortState = "RESP_CALIB_REQ" \/ q.msgTmpWrMessageID = "SLAVE_PRESENT"
  BY <1>5, HandleRunning
<1> HIDE DEF q, u, a
<1>7. q.msgTmpWrMessageID = "CALIBRATED" => a \in Port /\ Running(a) /\ ModeOK(n, a)
  <2> SUFFICES ASSUME q.msgTmpWrMessageID = "CALIBRATED"
               PROVE  a \in Port /\ Running(a) /\ ModeOK(n, a)
    OBVIOUS
  <2>1. q.wrPortState = "RESP_CALIB_REQ"
    BY <1>6
  <2>2. u \in Port /\ Running(u) /\ ModeOK(n, u) /\ u.wrPortState = "RESP_CALIB_REQ"
    BY <1>4, <1>6, <2>1, AnsweredMode DEF u
  <2> QED
    BY <1>2, <2>2, AfterCalibratedMode DEF a
<1> QED
  BY <1>3, <1>6, <1>7, FinishWRMode

\* WRS_RESP_CALIB_REQ, when the hardware keeps the port from reading.
LEMMA WrRespCalibReqNoFrameMode ==
  ASSUME TypedAndDriven, Modes, NEW n \in Node, NEW p \in Port, RoleOK(p), ModeOK(n, p),
         NEW expired \in BOOLEAN, NEW hw \in Nat, NEW hwAgain \in Nat,
         WrRespCalibReqNoFrame(n, p, expired, hw, hwAgain)
  PROVE  Modes'
<1> DEFINE q == AfterCalibrated(p, hw)
<1>1. Running(p) /\ p.wrPortState = "RESP_CALIB_REQ"
  BY InWRStateRunning DEF WrRespCalibReqNoFrame, InWRState
<1>2. q \in Port /\ Running(q) /\ ModeOK(n, q)
  BY <1>1, AfterCalibratedMode
<1>3. Finish(n, NoFrame, EndOfWRState(q, expired, hwAgain))
  BY DEF WrRespCalibReqNoFrame
<1> HIDE DEF q
<1> QED
  BY <1>2, <1>3, FinishWRMode, NoFrameFrames

\* WRS_WR_LINK_ON: the FSM goes idle and the port to the state of its role.
LEMMA WrLinkOnMode ==
  ASSUME TypedAndDriven, Modes, NEW n \in Node, NEW p \in Port, RoleOK(p), ModeOK(n, p),
         WrLinkOn(n, p)
  PROVE  Modes'
<1> DEFINE q == ToWRState(p, "IDLE", 0)
           s == IF p.wrMode = "WR_SLAVE" THEN "SLAVE" ELSE "MASTER"
           r == ToState(q, s)
<1>1. Running(p) /\ p.wrPortState = "WR_LINK_ON"
  BY InWRStateRunning DEF WrLinkOn, InWRState
<1>2. Finish(n, NoFrame, EndOfWRState(r, FALSE, 0))
  BY DEF WrLinkOn
<1>3. s \in PortState /\ s # "UNCALIBRATED"
  BY DEF PortState
<1>4. (n = SlaveNode => s # "MASTER") /\ (n = MasterNode => s # "SLAVE")
  BY <1>1, RunningPlace
<1> HIDE DEF q, s, r
<1>5. q \in Port /\ q.wrPortState = "IDLE" /\ ModeOK(n, q)
  BY ToWRStateType, ToIdleMode DEF q, WrState
<1>6. ~PhyCalibrationRequired => q.calibrated
  <2>1. Kept(q, p)
    BY <1>1, ToWRStateModes DEF q, Entered, WrState, Left
  <2> QED
    BY <1>1, <2>1, RunningPlace DEF Kept
<1>7. MayBe(n, q, s)
  BY <1>3, <1>4, <1>6 DEF MayBe
<1>8. r \in Port /\ RoleOK(r) /\ ModeOK(n, r)
  BY <1>3, <1>5, <1>7, ToStateType, ToStateMode DEF r
<1>9. EndOfWRState(r, FALSE, 0) \in Port
  BY <1>8, EndOfWRStateType
<1>10. r.wrPortState # "IDLE" => Running(r)
  BY <1>5, <1>8, ToStateType, <1>3 DEF r
<1>11. ModeOK(n, EndOfWRState(r, FALSE, 0))
  BY <1>8, <1>10, EndOfWRStateMode
<1> QED
  BY <1>2, <1>9, <1>11, FinishMode, NoFrameFrames

-----------------------------------------------------------------------------
(* The other steps.                                                        *)

\* A daemon that has just been started has nothing in WR mode.
LEMMA FreshPortMode ==
  ASSUME NEW n \in Node, NEW event
  PROVE  ModeOK(n, FreshPort(n, event))
<1>1. Placed(n, FreshPort(n, event))
  BY NodesAssumption DEF FreshPort, Placed
<1>2. InWrMode(FreshPort(n, event)) /\ PeerDeltas(n, FreshPort(n, event))
  BY DEF FreshPort, InWrMode, PeerDeltas
<1>3. PatternOff(n, FreshPort(n, event)) /\ Requests(n, FreshPort(n, event))
  BY DEF FreshPort, PatternOff, Requests
<1> QED
  BY <1>1, <1>2, <1>3 DEF ModeOK

\* The daemons start with the invariant.
LEMMA InitMode ==
  ASSUME Init
  PROVE  Modes
<1>1. PICK event \in [Node -> EventGarbage] :
        port = [n \in Node |-> FreshPort(n, event[n])]
  BY DEF Init
<1>2. \A n \in Node : ModeOK(n, port[n])
  BY <1>1, FreshPortMode
<1>3. chan[MasterNode] = <<>>
  BY DEF Init, Node
<1> QED
  BY <1>2, <1>3 DEF Modes

\* The link is down.
LEMMA LinkDownMode ==
  ASSUME TypedAndDriven, Modes, NEW n \in Node, LinkDown(n)
  PROVE  Modes'
<1>1. port[n] \in Port /\ RoleOK(port[n]) /\ ModeOK(n, port[n])
  BY DEF TypedAndDriven, TypeOK, RoleConsistency, Modes
<1>2. CheckLink(port[n], FALSE) \in Port
  BY <1>1, CheckLinkType
<1>3. ModeOK(n, CheckLink(port[n], FALSE))
  BY <1>1, CheckLinkMode
<1> QED
  BY <1>2, <1>3, FinishMode, NoFrameFrames DEF LinkDown

\* A daemon that is started again is like a new one.
LEMMA RestartMode ==
  ASSUME TypedAndDriven, Modes, NEW n \in Node, Restart(n)
  PROVE  Modes'
<1>1. PICK event \in EventGarbage : port' = [port EXCEPT ![n] = FreshPort(n, event)]
  BY DEF Restart
<1>2. \A m \in Node : ModeOK(m, port'[m])
  BY <1>1, FreshPortMode DEF TypedAndDriven, TypeOK, Modes
<1>3. chan' = [chan EXCEPT ![n] = <<>>] /\ MasterNode \in Node
  BY DEF Restart, Node
<1>4. chan'[MasterNode] \in Seq(FromSlave)
  <2>1. chan'[MasterNode] = <<>> \/ chan'[MasterNode] = chan[MasterNode]
    BY <1>3 DEF TypedAndDriven, TypeOK
  <2>2. <<>> \in Seq(FromSlave) /\ chan[MasterNode] \in Seq(FromSlave)
    BY DEF Modes
  <2> QED
    BY <2>1, <2>2
<1> QED
  BY <1>2, <1>4 DEF Modes

\* The frames that are left were sent before.
LEMMA LoseFrameMode ==
  ASSUME TypedAndDriven, Modes, NEW n \in Node, LoseFrame(n)
  PROVE  Modes'
<1>1. PICK i \in 1 .. Len(chan[n]) :
        chan' = [chan EXCEPT ![n] =
                   SubSeq(chan[n], 1, i - 1) \o SubSeq(chan[n], i + 1, Len(chan[n]))]
  BY DEF LoseFrame
<1>2. port' = port /\ MasterNode \in Node
  BY DEF LoseFrame, Node
<1>3. chan'[MasterNode] \in Seq(FromSlave)
  <2> DEFINE c == chan[n]
             a == SubSeq(c, 1, i - 1)
             b == SubSeq(c, i + 1, Len(c))
  <2>1. chan' = [chan EXCEPT ![n] = a \o b]
    BY <1>1
  <2>2. n = MasterNode => c \in Seq(FromSlave)
    BY DEF Modes
  <2> HIDE DEF c
  <2>3. n = MasterNode => a \in Seq(FromSlave) /\ b \in Seq(FromSlave)
    <3> SUFFICES ASSUME n = MasterNode
                 PROVE  a \in Seq(FromSlave) /\ b \in Seq(FromSlave)
      OBVIOUS
    <3>1. c \in Seq(FromSlave) /\ Len(c) \in Nat /\ i \in 1 .. Len(c)
      BY <2>2 DEF c
    <3> QED
      BY <3>1
  <2> HIDE DEF a, b
  <2>4. n = MasterNode => a \o b \in Seq(FromSlave)
    BY <2>3
  <2>5. chan'[MasterNode] = IF n = MasterNode THEN a \o b ELSE chan[MasterNode]
    BY <1>2, <2>1 DEF TypedAndDriven, TypeOK
  <2> QED
    BY <2>4, <2>5 DEF Modes
<1> QED
  BY <1>2, <1>3 DEF Modes

\* A turn of the main loop.
LEMMA LoopTurnMode ==
  ASSUME TypedAndDriven, Modes, NEW n \in Node, LoopTurn(n)
  PROVE  Modes'
<1> DEFINE p == Ready(n)
<1>1. p \in Port /\ RoleOK(p)
  BY ReadyType DEF TypedAndDriven, TypeOK, RoleConsistency
<1>2. ModeOK(n, p)
  BY ReadyMode DEF TypedAndDriven, TypeOK, RoleConsistency, Modes
<1> HIDE DEF p
<1>3. CASE LinkDown(n)
  BY <1>3, LinkDownMode
<1>4. CASE PlainTurn(n)
  <2>1. \/ Initializing(n, p) \/ PassThrough(n, p)
        \/ ListeningMaster(n, p) \/ WrLinkOn(n, p)
    BY <1>4 DEF PlainTurn, p
  <2> QED
    BY <1>1, <1>2, <2>1, InitializingMode, PassThroughMode, ListeningMasterMode, WrLinkOnMode
<1>5. ASSUME NEW expired \in BOOLEAN, NEW hw \in HwAnswers, NEW hwAgain \in HwAnswersAgain,
             HardwareTurn(n, expired, hw, hwAgain)
      PROVE  Modes'
  <2>1. hw \in Nat /\ hwAgain \in Nat
    BY HwAnswersType
  <2>2. \/ WrSLock(n, p, expired, hw, hwAgain)
        \/ WrCalibration(n, p, expired, hw, hwAgain)
        \/ WrRespCalibReqNoFrame(n, p, expired, hw, hwAgain)
    BY <1>5 DEF HardwareTurn, p
  <2> QED
    BY <1>1, <1>2, <2>1, <2>2, WrSLockMode, WrCalibrationMode, WrRespCalibReqNoFrameMode
<1>6. ASSUME NEW expired \in BOOLEAN, NEW hw \in HwAnswers, NEW hwAgain \in HwAnswersAgain,
             NEW rx \in Frames(n), FrameTurn(n, rx, expired, hw, hwAgain)
      PROVE  Modes'
  <2>1. hw \in Nat /\ hwAgain \in Nat
    BY HwAnswersType
  <2>2. \/ Disabled(n, p, rx)
        \/ ListeningOrSlave(n, p, rx, expired)
        \/ Master(n, p, rx, expired)
        \/ WrPresent(n, p, rx, expired, hw, hwAgain)
        \/ WrMLock(n, p, rx, expired, hw, hwAgain)
        \/ WrLocked(n, p, rx, expired, hw, hwAgain)
        \/ WrCalibrated(n, p, rx, expired, hw, hwAgain)
        \/ WrRespCalibReq(n, p, rx, expired, hw, hwAgain)
    BY <1>6 DEF FrameTurn, p
  <2> QED
    BY <1>1, <1>2, <2>1, <2>2, DisabledMode, ListeningOrSlaveMode, MasterMode, WrPresentMode,
       WrMLockMode, WrLockedMode, WrCalibratedMode, WrRespCalibReqMode
<1> QED
  BY <1>3, <1>4, <1>5, <1>6 DEF LoopTurn

\* Every step keeps the invariant.
LEMMA NextMode ==
  ASSUME TypedAndDriven, Modes, [Next]_vars
  PROVE  Modes'
<1>1. CASE UNCHANGED vars
  BY <1>1 DEF vars, Modes
<1>2. ASSUME NEW n \in Node, LoopTurn(n)
      PROVE  Modes'
  BY <1>2, LoopTurnMode
<1>3. ASSUME NEW n \in Node, Restart(n)
      PROVE  Modes'
  BY <1>3, RestartMode
<1>4. ASSUME NEW n \in Node, LoseFrame(n)
      PROVE  Modes'
  BY <1>4, LoseFrameMode
<1>5. CASE Unplug \/ Plug
  BY <1>5 DEF Unplug, Plug, Modes
<1> QED
  BY <1>1, <1>2, <1>3, <1>4, <1>5 DEF Next

-----------------------------------------------------------------------------
(* The theorems.                                                           *)

\* The modes follow the handshake, with any retry limits and options, whatever
\* the hardware refuses, the link loses and the faults interrupt.
THEOREM ModesInvariant == Spec => [](TypedAndDriven /\ Modes)
<1>1. Init => TypedAndDriven /\ Modes
  BY InitType, InitMode
<1>2. TypedAndDriven /\ Modes /\ [Next]_vars => (TypedAndDriven /\ Modes)'
  BY NextStep, NextMode
<1> QED
  BY <1>1, <1>2, PTL DEF Spec

\* The servo never adds the fixed delays of a peer it has not heard of: WR mode
\* is switched on (wr_protocol.c, WRS_WR_LINK_ON) only after CALIBRATED was
\* unpacked, and what forgets the delays, initWrData(), switches it off.
THEOREM DeltasAreKnown == Spec => []DeltasKnown
<1>1. Modes => DeltasKnown
  BY DEF Modes, ModeOK, InWrMode, DeltasKnown
<1> QED
  BY <1>1, ModesInvariant, PTL

\* A port in WR mode has switched its calibration pattern off, however often
\* WRS_CALIBRATION and WRS_RESP_CALIB_REQ were repeated, interrupted or entered
\* again before.
THEOREM PatternIsOff == Spec => []PatternOffInWrMode
<1>1. Modes => PatternOffInWrMode
  BY DEF Modes, ModeOK, InWrMode, PatternOffInWrMode
<1> QED
  BY <1>1, ModesInvariant, PTL

\* toState() does not pre-empt the WR FSM: as long as it runs the port keeps
\* its PTP state and its WR mode.
THEOREM FsmNotPreempted == Spec => NonPreemption
<1> DEFINE Running1(n) == port[n].wrPortState # "IDLE" /\ port[n].portState # "INITIALIZING"
           At(n) == /\ port[n].portState = IF n = SlaveNode THEN "UNCALIBRATED" ELSE "MASTER"
                    /\ port[n].wrMode = IF n = SlaveNode THEN "WR_SLAVE" ELSE "WR_MASTER"
           Places == \A n \in Node : Running1(n) => At(n)
<1>1. TypedAndDriven /\ Modes => Places
  <2> SUFFICES ASSUME TypedAndDriven, Modes, NEW n \in Node, Running1(n)
               PROVE  At(n)
    OBVIOUS
  <2>1. Running(port[n]) /\ ModeOK(n, port[n])
    BY DEF TypedAndDriven, RoleConsistency, RoleOK, Running, Modes
  <2> QED
    BY <2>1, RunningPlace DEF Node
<1>2. Places /\ Places' =>
        \A n \in Node :
          (/\ port[n].wrPortState # "IDLE" /\ port'[n].wrPortState # "IDLE"
           /\ port[n].portState # "INITIALIZING" /\ port'[n].portState # "INITIALIZING")
          => /\ port'[n].portState = port[n].portState
             /\ port'[n].wrMode = port[n].wrMode
  OBVIOUS
<1> HIDE DEF Places
<1>3. Spec => []Places
  BY <1>1, ModesInvariant, PTL
<1> QED
  BY <1>2, <1>3, PTL DEF Spec, NonPreemption

-----------------------------------------------------------------------------
(* The handshake of both ends, as long as no fault happens and timers are  *)
(* slow: what is on its way tells how far the other end can be.            *)

\* A daemon runs, and has seen its link.
Awake(p) ==
  /\ ~p.doRestart /\ p.portState # "FAULTY"
  /\ p.linkUP = (p.portState # "INITIALIZING")
  /\ p.portState = "INITIALIZING" => p.wrPortState = "PRESENT" /\ ~p.wrModeON
Healthy == cable /\ \A n \in Node : Awake(port[n])

\* A port that is in no link setup, or at its very end.
Resting(p) == p.wrPortState \in {"IDLE", "WR_LINK_ON"} \/ p.portState = "INITIALIZING"

\* The slave has sent all it has to send, and waits for WR_MODE_ON.
SlaveWaits == port[SlaveNode].wrPortState = "CALIBRATED"

\* A slave at rest has nothing on its way to the master.
NothingLeft == Resting(port[SlaveNode]) => chan[MasterNode] = <<>>

\* The slave's CALIBRATED is the last frame that it sends.
LastFrame ==
  \A i \in 1 .. Len(chan[MasterNode]) :
    chan[MasterNode][i].type = "CALIBRATED" => SlaveWaits /\ i = Len(chan[MasterNode])

\* A master that has received it and is about to turn WR mode on.
HasAnswer(p) == p.wrPortState = "RESP_CALIB_REQ" /\ p.wrSubstate >= 2
Answered == HasAnswer(port[MasterNode]) => SlaveWaits /\ chan[MasterNode] = <<>>

\* WR_MODE_ON is on its way: to a slave that waits for it, from a master that is in
\* WR mode and says so in each later announce.
SaysOn(m) == m.type = "ANNOUNCE" /\ m.flag
ModeOnComes ==
  \A i \in 1 .. Len(chan[SlaveNode]) :
    chan[SlaveNode][i].type = "WR_MODE_ON" =>
      /\ SlaveWaits /\ chan[MasterNode] = <<>> /\ port[MasterNode].wrModeON
      /\ \A j \in i + 1 .. Len(chan[SlaveNode]) : SaysOn(chan[SlaveNode][j])

\* The slave is in WR mode, and so is the master.
BothOn ==
  port[SlaveNode].wrModeON =>
    /\ port[MasterNode].wrModeON
    /\ \A i \in 1 .. Len(chan[SlaveNode]) :
         chan[SlaveNode][i].type = "ANNOUNCE" => chan[SlaveNode][i].flag

\* No signaling message of a turn before lets a port go on.
Forgotten ==
  /\ port[SlaveNode].msgTmpWrMessageID # "WR_MODE_ON"
  /\ port[MasterNode].wrPortState = "RESP_CALIB_REQ"
       => port[MasterNode].msgTmpWrMessageID # "CALIBRATED"

\* Both ends in step.
Lockstep ==
  /\ Healthy /\ NothingLeft /\ LastFrame /\ Answered /\ ModeOnComes /\ BothOn /\ Forgotten

\* The invariant: in step until the first fault.
HandshakeOK == faults = 0 => Lockstep

-----------------------------------------------------------------------------
(* What the operators on a port data set do to the fields of Lockstep.     *)

\* A port that runs on a link.
Up(p) == ~p.doRestart /\ p.linkUP /\ p.portState \notin {"FAULTY", "INITIALIZING"}

\* The fields are the same but for the PTP state and the signaling message.
SameLink(q, p) ==
  /\ q.wrPortState = p.wrPortState
  /\ q.wrSubstate = p.wrSubstate
  /\ q.wrModeON = p.wrModeON
  /\ q.out = p.out
  /\ q.fresh = p.fresh
  /\ q.doRestart = p.doRestart
  /\ q.linkUP = p.linkUP

\* The type of the frame that entering WR state s sends, if it sends one.
Signal(s) ==
  CASE s = "PRESENT"     -> "SLAVE_PRESENT"
    [] s = "LOCKED"      -> "LOCKED"
    [] s = "M_LOCK"      -> "LOCK"
    [] s = "CALIBRATION" -> "CALIBRATE"
    [] s = "WR_LINK_ON"  -> "WR_MODE_ON"
    [] OTHER             -> "NONE"

\* Entering WR state s appended its frame, or nothing.
Sent(q, p, s) ==
  \/ q.out = p.out
  \/ \E m \in Message : q.out = Append(p.out, m) /\ m.type = Signal(s)

\* The frames of toWRState(), its "entering" half.
LEMMA EnterWRStateLink ==
  ASSUME NEW p \in Port, NEW s \in WrState, NEW hw \in Nat
  PROVE  LET q == EnterWRState(p, s, hw)
         IN  /\ q.doRestart = p.doRestart /\ q.linkUP = p.linkUP
             /\ Sent(q, p, s)
             /\ s = "WR_LINK_ON" =>
                  /\ q.wrModeON
                  /\ p.wrMode # "WR_MASTER" => q.out = p.out
                  /\ p.wrMode = "WR_MASTER" =>
                       q.out = Append(p.out, [type |-> "WR_MODE_ON", flag |-> FALSE])
<1> DEFINE q == EnterWRState(p, s, hw)
<1>1. /\ p.out \in Seq(Message) /\ p.calibrated \in BOOLEAN
      /\ [type |-> "SLAVE_PRESENT", flag |-> FALSE] \in Message
      /\ [type |-> "LOCKED", flag |-> FALSE] \in Message
      /\ [type |-> "LOCK", flag |-> FALSE] \in Message
      /\ [type |-> "CALIBRATE", flag |-> ~p.calibrated] \in Message
      /\ [type |-> "WR_MODE_ON", flag |-> FALSE] \in Message
  BY PortFields DEF Message, SignalId
<1>2. CASE s = "PRESENT"
  <2> DEFINE m == [type |-> "SLAVE_PRESENT", flag |-> FALSE]
  <2>1. q.doRestart = p.doRestart /\ q.linkUP = p.linkUP /\ q.out = Append(p.out, m)
    BY <1>2 DEF EnterWRState, ToSubstate, Send, Port
  <2> QED
    BY <1>1, <1>2, <2>1 DEF Sent, Signal
<1>3. CASE s = "LOCKED"
  <2> DEFINE m == [type |-> "LOCKED", flag |-> FALSE]
  <2>1. q.doRestart = p.doRestart /\ q.linkUP = p.linkUP /\ q.out = Append(p.out, m)
    BY <1>3 DEF EnterWRState, ToSubstate, Send, Port
  <2> QED
    BY <1>1, <1>3, <2>1 DEF Sent, Signal
<1>4. CASE s = "M_LOCK"
  <2> DEFINE m == [type |-> "LOCK", flag |-> FALSE]
  <2>1. q.doRestart = p.doRestart /\ q.linkUP = p.linkUP /\ q.out = Append(p.out, m)
    BY <1>4 DEF EnterWRState, ToSubstate, Send, Port
  <2> QED
    BY <1>1, <1>4, <2>1 DEF Sent, Signal
<1>5. CASE s = "CALIBRATION"
  <2> DEFINE m == [type |-> "CALIBRATE", flag |-> ~p.calibrated]
  <2>1. q.doRestart = p.doRestart /\ q.linkUP = p.linkUP /\ q.out = Append(p.out, m)
    BY <1>5 DEF EnterWRState, ToSubstate, SendPattern, Send, Port
  <2> QED
    BY <1>1, <1>5, <2>1 DEF Sent, Signal
<1>6. CASE s = "WR_LINK_ON"
  <2> DEFINE m == [type |-> "WR_MODE_ON", flag |-> FALSE]
  <2>1. q = EnterWrLinkOn(p)
    BY <1>6 DEF EnterWRState
  <2>2. /\ q.doRestart = p.doRestart /\ q.linkUP = p.linkUP /\ q.wrModeON
        /\ p.wrMode # "WR_MASTER" => q.out = p.out
        /\ p.wrMode = "WR_MASTER" => q.out = Append(p.out, m)
    BY <2>1 DEF EnterWrLinkOn, Send, Port
  <2> QED
    BY <1>1, <1>6, <2>2 DEF Sent, Signal
<1>7. CASE s \in {"S_LOCK", "RESP_CALIB_REQ", "IDLE", "CALIBRATED"}
  <2>1. q.doRestart = p.doRestart /\ q.linkUP = p.linkUP /\ q.out = p.out
    BY <1>7 DEF EnterWRState, ToSubstate, SendPattern, Port
  <2> QED
    BY <1>7, <2>1 DEF Sent
<1> QED
  BY <1>2, <1>3, <1>4, <1>5, <1>6, <1>7 DEF WrState

\* What a port q is after toWRState(s) of the port p.
Moved(q, p, s) ==
    /\ q \in Port
    /\ q.doRestart = p.doRestart /\ q.linkUP = p.linkUP
    /\ q.portState = p.portState /\ q.wrMode = p.wrMode
    /\ q.msgTmpWrMessageID = p.msgTmpWrMessageID
    /\ q.fresh = (s # "IDLE")
    /\ q.wrPortState = s \/ (s = "S_LOCK" /\ q.wrPortState = p.wrPortState)
    /\ s = "RESP_CALIB_REQ" => q.wrSubstate <= 1
    /\ s # "WR_LINK_ON" => q.wrModeON = (p.wrModeON /\ p.wrPortState # "IDLE")
    /\ s = "WR_LINK_ON" =>
         /\ q.wrModeON
         /\ p.wrMode # "WR_MASTER" => q.out = p.out
         /\ p.wrMode = "WR_MASTER" =>
              q.out = Append(p.out, [type |-> "WR_MODE_ON", flag |-> FALSE])
    /\ Sent(q, p, s)

\* toWRState() as a whole.
LEMMA ToWRStateMoves ==
  ASSUME NEW p \in Port, NEW s \in WrState, NEW hw \in Nat
  PROVE  Moved(ToWRState(p, s, hw), p, s)
<1> DEFINE l == Left(p)
           e == EnterWRState(l, s, hw)
           w == WrTimetoutManage(e, s, p.wrPortState)
           q == ToWRState(p, s, hw)
<1>1. l \in Port /\ e \in Port
  BY InitWrDataType, EnterWRStateType DEF Left
<1>2. q = w
  BY DEF ToWRState, Left
<1>3. /\ l.doRestart = p.doRestart /\ l.linkUP = p.linkUP /\ l.portState = p.portState
      /\ l.wrMode = p.wrMode /\ l.msgTmpWrMessageID = p.msgTmpWrMessageID
      /\ l.wrPortState = p.wrPortState /\ l.out = p.out
      /\ l.wrModeON = (p.wrModeON /\ p.wrPortState # "IDLE")
  BY DEF Left, InitWrData, Port
<1> HIDE DEF l
<1>4. /\ e.doRestart = l.doRestart /\ e.linkUP = l.linkUP
      /\ Sent(e, l, s)
      /\ s = "WR_LINK_ON" =>
           /\ e.wrModeON
           /\ l.wrMode # "WR_MASTER" => e.out = l.out
           /\ l.wrMode = "WR_MASTER" =>
                e.out = Append(l.out, [type |-> "WR_MODE_ON", flag |-> FALSE])
  BY <1>1, EnterWRStateLink
<1>5. /\ Entered(e, l, s)
      /\ e.wrPortState = s \/ (s = "S_LOCK" /\ e.wrPortState = l.wrPortState)
  BY <1>1, EnterWRStateModes, EnterWRStateType
<1> HIDE DEF e
<1>6. /\ w.doRestart = e.doRestart /\ w.linkUP = e.linkUP /\ w.fresh = (s # "IDLE")
      /\ Alike(w, e)
  <2>1. w.doRestart = e.doRestart /\ w.linkUP = e.linkUP /\ w.fresh = (s # "IDLE")
    BY <1>1 DEF WrTimetoutManage, Port
  <2>2. Alike(w, e)
    BY <1>1, WrTimetoutManageAlike
  <2> QED
    BY <2>1, <2>2
<1>7. w \in Port
  BY <1>1, PortFields, WrTimetoutManageType
<1> HIDE DEF w
<1>8. e.wrSubstate \in Nat /\ l.wrModeON \in BOOLEAN /\ e.wrModeON \in BOOLEAN
  BY <1>1, PortFields DEF WrSubstate
<1>9. Sent(w, p, s)
  BY <1>3, <1>4, <1>6 DEF Sent, Alike
<1>10. /\ w.portState = p.portState /\ w.wrMode = p.wrMode
       /\ w.msgTmpWrMessageID = p.msgTmpWrMessageID
       /\ s # "WR_LINK_ON" => w.wrModeON = l.wrModeON
       /\ s = "RESP_CALIB_REQ" => w.wrSubstate <= 1
  BY <1>3, <1>5, <1>6, <1>8 DEF Alike, Entered, Kept
<1> QED
  BY <1>2, <1>3, <1>4, <1>5, <1>6, <1>7, <1>9, <1>10 DEF Alike, Moved

\* The same, conjunct by conjunct.
LEMMA ToWRStateLink ==
  ASSUME NEW p \in Port, NEW s \in WrState, NEW hw \in Nat
  PROVE  LET q == ToWRState(p, s, hw)
         IN  /\ q \in Port
             /\ q.doRestart = p.doRestart /\ q.linkUP = p.linkUP
             /\ q.portState = p.portState /\ q.wrMode = p.wrMode
             /\ q.msgTmpWrMessageID = p.msgTmpWrMessageID
             /\ q.fresh = (s # "IDLE")
             /\ q.wrPortState = s \/ (s = "S_LOCK" /\ q.wrPortState = p.wrPortState)
             /\ s = "RESP_CALIB_REQ" => q.wrSubstate <= 1
             /\ s # "WR_LINK_ON" => q.wrModeON = (p.wrModeON /\ p.wrPortState # "IDLE")
             /\ s = "WR_LINK_ON" =>
                  /\ q.wrModeON
                  /\ p.wrMode # "WR_MASTER" => q.out = p.out
                  /\ p.wrMode = "WR_MASTER" =>
                       q.out = Append(p.out, [type |-> "WR_MODE_ON", flag |-> FALSE])
             /\ Sent(q, p, s)
  BY ToWRStateMoves DEF Moved

\* toState() to a state that starts no link setup.
LEMMA ToStateLink ==
  ASSUME NEW p \in Port, NEW s \in PortState, s # "UNCALIBRATED"
  PROVE  LET q == ToState(p, s)
         IN  /\ q.wrPortState = p.wrPortState /\ q.wrSubstate = p.wrSubstate
             /\ q.out = p.out /\ q.fresh = p.fresh
             /\ q.doRestart = p.doRestart /\ q.linkUP = p.linkUP
             /\ q.msgTmpWrMessageID = p.msgTmpWrMessageID
             /\ q.wrModeON => p.wrModeON
             /\ p.portState # "SLAVE" => q.wrModeON = p.wrModeON
             /\ q.portState = IF p.wrPortState = "IDLE" THEN s ELSE p.portState
<1> DEFINE l == LeaveState(p)
           e == [l EXCEPT !.portState = s,
                          !.announceReceipt = @ \/ s \in {"LISTENING", "SLAVE"}]
<1>1. l \in Port
  BY LeaveStateType
<1>2. /\ l.wrPortState = p.wrPortState /\ l.wrSubstate = p.wrSubstate
      /\ l.out = p.out /\ l.fresh = p.fresh
      /\ l.doRestart = p.doRestart /\ l.linkUP = p.linkUP
      /\ l.msgTmpWrMessageID = p.msgTmpWrMessageID
      /\ l.wrModeON => p.wrModeON
      /\ p.portState # "SLAVE" => l.wrModeON = p.wrModeON
  BY DEF LeaveState, Port
<1>3. ToState(p, s) = IF p.wrPortState # "IDLE" THEN p ELSE e
  BY DEF ToState, EnterState
<1> HIDE DEF l
<1>4. /\ e.wrPortState = l.wrPortState /\ e.wrSubstate = l.wrSubstate
      /\ e.out = l.out /\ e.fresh = l.fresh
      /\ e.doRestart = l.doRestart /\ e.linkUP = l.linkUP
      /\ e.msgTmpWrMessageID = l.msgTmpWrMessageID
      /\ e.wrModeON = l.wrModeON /\ e.portState = s
  BY <1>1 DEF Port
<1> HIDE DEF e
<1> QED
  BY <1>2, <1>3, <1>4

\* toState() to PTP_UNCALIBRATED: the slave sends SLAVE_PRESENT, or goes on as
\* a PTP slave.
LEMMA ToUncalibratedLink ==
  ASSUME NEW p \in Port, p.wrPortState = "IDLE"
  PROVE  LET q == ToState(p, "UNCALIBRATED")
         IN  /\ q.doRestart = p.doRestart /\ q.linkUP = p.linkUP
             /\ q.msgTmpWrMessageID = p.msgTmpWrMessageID
             /\ q.wrModeON => p.wrModeON
             /\ \/ /\ q.portState = "SLAVE" /\ q.wrPortState = "IDLE"
                   /\ q.wrSubstate = p.wrSubstate /\ q.out = p.out /\ q.fresh = p.fresh
                \/ /\ q.portState = "UNCALIBRATED" /\ q.wrPortState = "PRESENT"
                   /\ Sent(q, p, "PRESENT") /\ q.fresh /\ ~q.wrModeON
<1> DEFINE l == LeaveState(p)
           w == ToWRState(l, "PRESENT", 0)
           a == [w EXCEPT !.portState = "UNCALIBRATED"]
           b == [l EXCEPT !.portState = "SLAVE"]
           c == [l EXCEPT !.wrMode = "NON_WR", !.portState = "SLAVE"]
<1>1. l \in Port
  BY LeaveStateType
<1>2. /\ l.wrPortState = "IDLE" /\ l.wrSubstate = p.wrSubstate
      /\ l.out = p.out /\ l.fresh = p.fresh
      /\ l.doRestart = p.doRestart /\ l.linkUP = p.linkUP
      /\ l.msgTmpWrMessageID = p.msgTmpWrMessageID
      /\ l.wrModeON => p.wrModeON
  BY DEF LeaveState, Port
<1>3. ToState(p, "UNCALIBRATED") \in {a, b, c}
  BY DEF ToState, EnterState, EnterUncalibrated
<1> HIDE DEF l
<1>4. /\ b.wrPortState = l.wrPortState /\ b.wrSubstate = l.wrSubstate
      /\ b.out = l.out /\ b.fresh = l.fresh
      /\ b.doRestart = l.doRestart /\ b.linkUP = l.linkUP
      /\ b.msgTmpWrMessageID = l.msgTmpWrMessageID
      /\ b.wrModeON = l.wrModeON /\ b.portState = "SLAVE"
  BY <1>1 DEF Port
<1>5. /\ c.wrPortState = l.wrPortState /\ c.wrSubstate = l.wrSubstate
      /\ c.out = l.out /\ c.fresh = l.fresh
      /\ c.doRestart = l.doRestart /\ c.linkUP = l.linkUP
      /\ c.msgTmpWrMessageID = l.msgTmpWrMessageID
      /\ c.wrModeON = l.wrModeON /\ c.portState = "SLAVE"
  BY <1>1 DEF Port
<1>6. /\ w \in Port /\ w.doRestart = l.doRestart /\ w.linkUP = l.linkUP
      /\ w.msgTmpWrMessageID = l.msgTmpWrMessageID
      /\ w.fresh /\ w.wrPortState = "PRESENT" /\ ~w.wrModeON /\ Sent(w, l, "PRESENT")
  <2> HIDE DEF w, a, b, c
  <2>1. "PRESENT" \in WrState /\ 0 \in Nat /\ "PRESENT" \notin {"IDLE", "S_LOCK", "WR_LINK_ON"}
    BY DEF WrState
  <2>2. /\ w \in Port /\ w.doRestart = l.doRestart /\ w.linkUP = l.linkUP
        /\ w.msgTmpWrMessageID = l.msgTmpWrMessageID
        /\ w.wrPortState = "PRESENT" /\ Sent(w, l, "PRESENT")
    BY <1>1, <2>1, ToWRStateLink DEF w
  <2>3. w.fresh = ("PRESENT" # "IDLE")
    BY <1>1, <2>1, ToWRStateLink DEF w
  <2>4. w.wrModeON = (l.wrModeON /\ l.wrPortState # "IDLE")
    BY <1>1, <2>1, ToWRStateLink DEF w
  <2> QED
    BY <1>2, <2>2, <2>3, <2>4
<1> HIDE DEF w, b, c
<1>7. /\ a.doRestart = w.doRestart /\ a.linkUP = w.linkUP /\ a.out = w.out
      /\ a.msgTmpWrMessageID = w.msgTmpWrMessageID
      /\ a.fresh = w.fresh /\ a.wrPortState = w.wrPortState /\ a.wrModeON = w.wrModeON
      /\ a.portState = "UNCALIBRATED"
  BY <1>6 DEF Port
<1> HIDE DEF a
<1>8. Sent(a, p, "PRESENT")
  BY <1>2, <1>6, <1>7 DEF Sent
<1> DEFINE q == ToState(p, "UNCALIBRATED")
<1> HIDE DEF q
<1>9. CASE q = a
  BY <1>2, <1>6, <1>7, <1>8, <1>9 DEF q
<1>10. CASE q = b
  BY <1>2, <1>4, <1>10 DEF q
<1>11. CASE q = c
  BY <1>2, <1>5, <1>11 DEF q
<1> QED
  BY <1>3, <1>9, <1>10, <1>11 DEF q

\* wrTimerExpired(), retries used up.
LEMMA GiveUpLink ==
  ASSUME NEW p \in Port, Up(p)
  PROVE  LET q == GiveUp(p)
         IN  /\ q \in Port /\ Up(q)
             /\ q.wrPortState = "IDLE" /\ ~q.wrModeON /\ q.out = p.out
<1> DEFINE f == [p EXCEPT !.wrModeON = FALSE]
           w == ToWRState(f, "IDLE", 0)
           s == IF DisableFallback THEN "DISABLED"
                ELSE IF p.wrMode = "WR_MASTER" THEN "MASTER" ELSE "SLAVE"
           t == ToState(w, s)
           q == InitWrData(t, "INIT")
<1>1. s \in PortState /\ s \notin {"UNCALIBRATED", "FAULTY", "INITIALIZING"}
  BY DEF PortState
<1>2. GiveUp(p) = q
  BY DEF GiveUp
<1>3. /\ f \in Port /\ f.doRestart = p.doRestart /\ f.linkUP = p.linkUP
      /\ f.portState = p.portState /\ f.out = p.out
  <2>1. f \in Port
    BY BooleanUpdate
  <2> QED
    BY <2>1 DEF Port
<1> HIDE DEF f, s
<1>4. /\ w \in Port /\ w.doRestart = f.doRestart /\ w.linkUP = f.linkUP
      /\ w.portState = f.portState /\ w.out = f.out /\ w.wrPortState = "IDLE"
  <2>1. Sent(w, f, "IDLE") => w.out = f.out
    BY DEF Sent, Signal, Message, SignalId
  <2>2. /\ w \in Port /\ w.doRestart = f.doRestart /\ w.linkUP = f.linkUP
        /\ w.portState = f.portState /\ w.wrPortState = "IDLE" /\ Sent(w, f, "IDLE")
    BY <1>3, ToWRStateLink DEF WrState
  <2> QED
    BY <2>1, <2>2
<1> HIDE DEF w
<1>5. /\ t \in Port /\ t.doRestart = w.doRestart /\ t.linkUP = w.linkUP
      /\ t.portState = s /\ t.out = w.out
  <2> HIDE DEF t, q
  <2>1. t \in Port
    BY <1>1, <1>4, ToStateType DEF t
  <2>2. t.doRestart = w.doRestart /\ t.linkUP = w.linkUP /\ t.portState = s /\ t.out = w.out
    BY <1>1, <1>4, ToStateLink DEF t
  <2> QED
    BY <2>1, <2>2
<1> HIDE DEF t
<1>6. q.doRestart = t.doRestart /\ q.linkUP = t.linkUP
  BY <1>5 DEF InitWrData, Port
<1>8. q \in Port
  BY <1>5, InitWrDataType
<1>7. q.wrPortState = "IDLE" /\ ~q.wrModeON /\ q.out = t.out /\ q.portState = t.portState
  BY <1>5, InitWrDataModes
<1> HIDE DEF q
<1> QED
  BY <1>1, <1>2, <1>3, <1>4, <1>5, <1>6, <1>7, <1>8 DEF Up

\* The tail of doWRState(): nothing, the WR state once more, or the end of
\* the setup.  A timer started in this turn does not expire.
LEMMA EndOfWRStateLink ==
  ASSUME NEW p \in Port, Up(p), NEW expired \in BOOLEAN, NEW hw \in Nat
  PROVE  LET q == EndOfWRState(p, expired, hw)
         IN  /\ Up(q) /\ q.msgTmpWrMessageID = "NULL_WR_TLV"
             /\ \/ /\ q.wrPortState = p.wrPortState /\ q.wrSubstate = p.wrSubstate
                   /\ q.wrModeON = p.wrModeON /\ q.out = p.out
                \/ /\ expired /\ ~p.fresh /\ p.wrPortState # "IDLE"
                   /\ \/ /\ q.wrPortState = p.wrPortState
                         /\ Sent(q, p, p.wrPortState)
                         /\ p.wrPortState = "RESP_CALIB_REQ" => q.wrSubstate <= 1
                         /\ p.wrPortState # "WR_LINK_ON" => q.wrModeON = p.wrModeON
                      \/ q.wrPortState = "IDLE" /\ q.out = p.out /\ ~q.wrModeON
<1> DEFINE r == ToWRState(p, p.wrPortState, hw)
           g == GiveUp(p)
           t == WrTimerExpired(p, expired, hw)
           q == [t EXCEPT !.msgTmpWrMessageID = "NULL_WR_TLV"]
<1>1. EndOfWRState(p, expired, hw) = q
  BY DEF EndOfWRState
<1>2. t = p \/ (expired /\ ~p.fresh /\ p.wrPortState # "IDLE" /\ t \in {r, g})
  BY DEF WrTimerExpired
<1>3. /\ g \in Port /\ Up(g) /\ g.wrPortState = "IDLE" /\ ~g.wrModeON /\ g.out = p.out
  BY GiveUpLink
<1>4. p.wrPortState \in WrState /\ p.wrModeON \in BOOLEAN
  BY PortFields
<1>5. /\ r \in Port /\ r.doRestart = p.doRestart /\ r.linkUP = p.linkUP
      /\ r.portState = p.portState /\ r.wrPortState = p.wrPortState
      /\ p.wrPortState = "RESP_CALIB_REQ" => r.wrSubstate <= 1
      /\ p.wrPortState # "WR_LINK_ON" => r.wrModeON = (p.wrModeON /\ p.wrPortState # "IDLE")
      /\ Sent(r, p, p.wrPortState)
  BY <1>4, ToWRStateLink
<1> HIDE DEF r, g
<1>6. t \in Port
  BY <1>2, <1>3, <1>5
<1> HIDE DEF t
<1>7. /\ q.wrPortState = t.wrPortState /\ q.wrSubstate = t.wrSubstate
      /\ q.wrModeON = t.wrModeON /\ q.out = t.out /\ q.doRestart = t.doRestart
      /\ q.linkUP = t.linkUP /\ q.portState = t.portState
      /\ q.msgTmpWrMessageID = "NULL_WR_TLV"
  BY <1>6 DEF Port
<1> HIDE DEF q
<1>8. CASE t = p
  BY <1>1, <1>7, <1>8 DEF Up
<1>9. CASE expired /\ ~p.fresh /\ p.wrPortState # "IDLE" /\ t = r
  <2>1. Sent(q, p, p.wrPortState) /\ Up(q)
    BY <1>5, <1>7, <1>9 DEF Sent, Up
  <2> QED
    BY <1>1, <1>4, <1>5, <1>7, <1>9, <2>1
<1>10. CASE expired /\ ~p.fresh /\ p.wrPortState # "IDLE" /\ t = g
  <2>1. Up(q)
    BY <1>3, <1>7, <1>10 DEF Up
  <2> QED
    BY <1>1, <1>3, <1>7, <1>10, <2>1
<1> QED
  BY <1>2, <1>8, <1>9, <1>10

-----------------------------------------------------------------------------
(* A turn up to the body of the port state.                                *)

\* singlePortLoop() with the link up: it starts a port that has just come up,
\* and leaves any other alone.
LEMMA CheckLinkLink ==
  ASSUME NEW p \in Port, Awake(p)
  PROVE  LET q == CheckLink(p, TRUE)
         IN  /\ Up(q) /\ q.out = p.out
             /\ q.msgTmpWrMessageID = p.msgTmpWrMessageID
             /\ p.portState # "INITIALIZING" =>
                  /\ q.wrPortState = p.wrPortState /\ q.wrSubstate = p.wrSubstate
                  /\ q.wrModeON = p.wrModeON
             /\ p.portState = "INITIALIZING" => q.wrPortState = "IDLE" /\ ~q.wrModeON
<1> DEFINE l == [p EXCEPT !.linkUP = TRUE]
           t == ToState(l, "INITIALIZING")
           w == InitWrData(t, "INIT")
           v == [w EXCEPT !.doRestart = FALSE,
                          !.number_foreign_records = 0,
                          !.announceReceipt = FALSE]
           m == M1(v)
           i == ToState(m, "LISTENING")
           c == IF i.wrConfig = "WR_S_ONLY" THEN ClearForeignMasters(i) ELSE i
           r == [c EXCEPT !.doRestart = FALSE]
<1>1. p.linkUP \in BOOLEAN /\ p.doRestart \in BOOLEAN
  BY PortFields
<1>2. CheckLink(p, TRUE) = IF p.portState = "INITIALIZING" THEN r ELSE l
  BY <1>1 DEF CheckLink, DoInit, Awake
<1>3. l \in Port
  BY BooleanUpdate
<1>4. /\ l.doRestart = p.doRestart /\ l.linkUP /\ l.portState = p.portState
      /\ l.out = p.out /\ l.msgTmpWrMessageID = p.msgTmpWrMessageID
      /\ l.wrPortState = p.wrPortState /\ l.wrSubstate = p.wrSubstate
      /\ l.wrModeON = p.wrModeON
  BY DEF Port
<1> HIDE DEF l
<1>5. CASE p.portState # "INITIALIZING"
  <2>1. Up(l)
    BY <1>4, <1>5 DEF Up, Awake
  <2> QED
    BY <1>2, <1>4, <1>5, <2>1
<1>6. CASE p.portState = "INITIALIZING"
  <2>1. t = l
    BY <1>4, <1>6 DEF ToState, Awake
  <2> HIDE DEF t
  <2>2. /\ w \in Port /\ w.linkUP = t.linkUP /\ w.portState = t.portState
        /\ w.out = t.out /\ w.msgTmpWrMessageID = t.msgTmpWrMessageID
        /\ w.wrPortState = "IDLE" /\ ~w.wrModeON
    <3>1. w \in Port
      BY <1>3, <2>1, InitWrDataType
    <3>2. w.linkUP = t.linkUP
      BY <1>3, <2>1 DEF InitWrData, Port
    <3>3. /\ w.portState = t.portState
          /\ w.out = t.out /\ w.msgTmpWrMessageID = t.msgTmpWrMessageID
          /\ w.wrPortState = "IDLE" /\ ~w.wrModeON
      BY <1>3, <2>1, InitWrDataModes
    <3> QED
      BY <3>1, <3>2, <3>3
  <2> HIDE DEF w
  <2>3. /\ v \in Port /\ v.linkUP = w.linkUP /\ ~v.doRestart
        /\ v.portState = w.portState
        /\ v.out = w.out /\ v.msgTmpWrMessageID = w.msgTmpWrMessageID
        /\ v.wrPortState = w.wrPortState /\ v.wrModeON = w.wrModeON
    <3>1. v \in Port
      <4> DEFINE v1 == [w EXCEPT !.doRestart = FALSE]
                 v2 == [v1 EXCEPT !.number_foreign_records = 0]
                 v3 == [v2 EXCEPT !.announceReceipt = FALSE]
      <4>1. v = v3
        OBVIOUS
      <4> HIDE DEF v, v1, v2, v3
      <4>2. v1 \in Port
        BY <2>2, BooleanUpdate DEF v1
      <4>3. v2 \in Port
        BY <4>2, DataUpdate DEF v2
      <4>4. v3 \in Port
        BY <4>3, BooleanUpdate DEF v3
      <4> QED
        BY <4>1, <4>4
    <3>2. /\ v.linkUP = w.linkUP /\ ~v.doRestart /\ v.portState = w.portState
          /\ v.out = w.out /\ v.msgTmpWrMessageID = w.msgTmpWrMessageID
          /\ v.wrPortState = w.wrPortState /\ v.wrModeON = w.wrModeON
      BY <2>2 DEF Port
    <3> QED
      BY <3>1, <3>2
  <2> HIDE DEF v
  <2>4. m \in Port /\ Alike(m, v) /\ m.linkUP = v.linkUP /\ m.doRestart = v.doRestart
    <3>1. m \in Port /\ Alike(m, v)
      BY <2>3, M1Type, BmcAlike
    <3>2. m.linkUP = v.linkUP /\ m.doRestart = v.doRestart
      BY <2>3 DEF M1, Port
    <3> QED
      BY <3>1, <3>2
  <2> HIDE DEF m
  <2>5. m.wrPortState = "IDLE" /\ m.portState = "INITIALIZING" /\ ~m.wrModeON
        /\ m.linkUP /\ ~m.doRestart /\ m.out = p.out
        /\ m.msgTmpWrMessageID = p.msgTmpWrMessageID
    BY <1>4, <1>6, <2>1, <2>2, <2>3, <2>4 DEF Alike
  <2>6. /\ i \in Port /\ i.linkUP = m.linkUP /\ i.doRestart = m.doRestart
        /\ i.portState = "LISTENING" /\ i.out = m.out
        /\ i.msgTmpWrMessageID = m.msgTmpWrMessageID
        /\ i.wrPortState = m.wrPortState /\ (i.wrModeON => m.wrModeON)
    <3> HIDE DEF i, c, r
    <3>1. "LISTENING" \in PortState /\ "LISTENING" # "UNCALIBRATED"
      BY DEF PortState
    <3>2. i \in Port
      BY <2>4, <3>1, ToStateType DEF i
    <3>3. /\ i.linkUP = m.linkUP /\ i.doRestart = m.doRestart
          /\ i.out = m.out /\ i.msgTmpWrMessageID = m.msgTmpWrMessageID
          /\ i.wrPortState = m.wrPortState /\ (i.wrModeON => m.wrModeON)
          /\ i.portState = IF m.wrPortState = "IDLE" THEN "LISTENING" ELSE m.portState
      BY <2>4, <3>1, ToStateLink DEF i
    <3> QED
      BY <2>5, <3>2, <3>3
  <2> HIDE DEF i
  <2>7. /\ c \in Port /\ c.linkUP = i.linkUP /\ c.doRestart = i.doRestart
        /\ c.portState = i.portState /\ c.out = i.out
        /\ c.msgTmpWrMessageID = i.msgTmpWrMessageID
        /\ c.wrPortState = i.wrPortState /\ c.wrModeON = i.wrModeON
    <3>1. ClearForeignMasters(i) \in Port
      BY <2>6, ClearForeignMastersType
    <3>2. /\ ClearForeignMasters(i).linkUP = i.linkUP
          /\ ClearForeignMasters(i).doRestart = i.doRestart
          /\ Alike(ClearForeignMasters(i), i)
      BY <2>6 DEF ClearForeignMasters, Alike, Port
    <3> QED
      BY <2>6, <3>1, <3>2 DEF Alike
  <2> HIDE DEF c
  <2>8. /\ r.linkUP = c.linkUP /\ ~r.doRestart /\ r.portState = c.portState /\ r.out = c.out
        /\ r.msgTmpWrMessageID = c.msgTmpWrMessageID
        /\ r.wrPortState = c.wrPortState /\ r.wrModeON = c.wrModeON
    BY <2>7 DEF Port
  <2> HIDE DEF r
  <2> QED
    BY <1>2, <1>6, <2>5, <2>6, <2>7, <2>8 DEF Up
<1> QED
  BY <1>5, <1>6

\* What the first switch of doState() does to the link setup: nothing, or a
\* slave port sends SLAVE_PRESENT.
Starts(q, p) ==
  /\ p.wrPortState = "IDLE" /\ q.wrPortState = "PRESENT"
  /\ Sent(q, p, "PRESENT") /\ q.fresh /\ ~q.wrModeON

\* What the first switch of doState() does to the link setup, over both its cases.
LEMMA DecideLink ==
  ASSUME NEW n \in Node, NEW p \in Port, ModeOK(n, p), Up(p)
  PROVE  LET q == Decide(p)
         IN  /\ Up(q)
             /\ q.msgTmpWrMessageID = p.msgTmpWrMessageID
             /\ q.wrModeON => p.wrModeON
             /\ n = MasterNode => q.wrModeON = p.wrModeON
             /\ \/ q.wrPortState = p.wrPortState /\ q.wrSubstate = p.wrSubstate /\ q.out = p.out
                \/ n = SlaveNode /\ Starts(q, p)
<1> DEFINE u == [p EXCEPT !.record_update = FALSE]
           q == Bmc(u)
           s == RecommendedState(p)
           o == [q EXCEPT !.wrMode = "WR_SLAVE", !.wrModeON = FALSE]
<1>1. CASE ~StateDecisionEvent(p)
  BY <1>1 DEF Decide
<1>2. CASE StateDecisionEvent(p)
  <2>1. u \in Port
    BY BooleanUpdate
  <2>2. Alike(u, p) /\ u.linkUP = p.linkUP /\ u.doRestart = p.doRestart
    BY DEF Alike, Port
  <2>3. \/ Decide(p) = ToState(o, "UNCALIBRATED") /\ s = "SLAVE"
        \/ Decide(p) = ToState(q, s) /\ s = "MASTER"
        \/ Decide(p) = ToState(q, "UNCALIBRATED") /\ q.portState = "SLAVE"
        \/ Decide(p) = q
    BY <1>2 DEF Decide, RecommendedState, SynchronizationFault
  <2> HIDE DEF u
  <2>4. q \in Port /\ Alike(q, u) /\ q.linkUP = u.linkUP /\ q.doRestart = u.doRestart
    <3>1. q \in Port /\ Alike(q, u)
      BY <2>1, M1Type, S1Type, BmcAlike DEF Bmc
    <3>2. q.linkUP = u.linkUP /\ q.doRestart = u.doRestart
      BY <2>1 DEF Bmc, M1, S1, Port
    <3> QED
      BY <3>1, <3>2
  <2>5. s = IF n = SlaveNode THEN "SLAVE" ELSE "MASTER"
    BY DEF RecommendedState, ModeOK, Placed
  <2> HIDE DEF q, s
  <2>6. Alike(q, p) /\ q.linkUP = p.linkUP /\ q.doRestart = p.doRestart
    BY <2>2, <2>4, AlikeTrans
  <2>7. p.wrPortState = "IDLE" /\ (n = MasterNode => p.portState # "SLAVE")
    BY <1>2 DEF StateDecisionEvent, ModeOK, Placed
  <2>8. CASE Decide(p) = ToState(o, "UNCALIBRATED") /\ s = "SLAVE"
    <3> DEFINE d == ToState(o, "UNCALIBRATED")
               o1 == [q EXCEPT !.wrMode = "WR_SLAVE"]
               o2 == [o1 EXCEPT !.wrModeON = FALSE]
    <3>1. n = SlaveNode /\ n # MasterNode
      BY <2>5, <2>8, NodesAssumption
    <3>2. /\ Stays(o, q) /\ o.linkUP = q.linkUP /\ o.doRestart = q.doRestart
          /\ ~o.wrModeON
      BY <2>4 DEF Stays, Port
    <3>3. o = o2
      OBVIOUS
    <3> HIDE DEF o, o1, o2
    <3>4. o1 \in Port
      BY <2>4, StateUpdate DEF o1, WrMode
    <3>5. o \in Port
      BY <3>3, <3>4, BooleanUpdate DEF o2
    <3>6. /\ o.wrPortState = "IDLE" /\ o.wrSubstate = p.wrSubstate /\ o.out = p.out
          /\ o.linkUP = p.linkUP /\ o.doRestart = p.doRestart
          /\ o.msgTmpWrMessageID = p.msgTmpWrMessageID
      BY <2>6, <2>7, <3>2 DEF Stays, Alike
    <3>7. /\ d.doRestart = o.doRestart /\ d.linkUP = o.linkUP
          /\ d.msgTmpWrMessageID = o.msgTmpWrMessageID
          /\ d.wrModeON => o.wrModeON
          /\ \/ /\ d.portState = "SLAVE" /\ d.wrPortState = "IDLE"
                /\ d.wrSubstate = o.wrSubstate /\ d.out = o.out
             \/ /\ d.portState = "UNCALIBRATED" /\ d.wrPortState = "PRESENT"
                /\ Sent(d, o, "PRESENT") /\ d.fresh /\ ~d.wrModeON
      BY <3>5, <3>6, ToUncalibratedLink
    <3> HIDE DEF d
    <3>8. Up(d)
      BY <3>6, <3>7 DEF Up
    <3>9. Sent(d, o, "PRESENT") => Sent(d, p, "PRESENT")
      BY <3>6 DEF Sent
    <3>10. Decide(p) = d
      BY <2>8 DEF d
    <3> QED
      BY <2>7, <3>1, <3>2, <3>6, <3>7, <3>8, <3>9, <3>10 DEF Starts
  <2>9. CASE Decide(p) = ToState(q, s) /\ s = "MASTER"
    <3> DEFINE d == ToState(q, "MASTER")
    <3>1. "MASTER" \in PortState /\ "MASTER" # "UNCALIBRATED"
      BY DEF PortState
    <3>2. /\ d.wrPortState = q.wrPortState /\ d.wrSubstate = q.wrSubstate
          /\ d.out = q.out
          /\ d.doRestart = q.doRestart /\ d.linkUP = q.linkUP
          /\ d.msgTmpWrMessageID = q.msgTmpWrMessageID
          /\ d.wrModeON => q.wrModeON
          /\ q.portState # "SLAVE" => d.wrModeON = q.wrModeON
          /\ d.portState = IF q.wrPortState = "IDLE" THEN "MASTER" ELSE q.portState
      BY <2>4, <3>1, ToStateLink
    <3>3. Decide(p) = d
      BY <2>9
    <3> HIDE DEF d
    <3>4. Up(d)
      BY <2>6, <2>7, <3>2 DEF Up, Alike
    <3> QED
      BY <2>6, <2>7, <3>2, <3>3, <3>4 DEF Alike
  <2>10. CASE Decide(p) = ToState(q, "UNCALIBRATED") /\ q.portState = "SLAVE"
    <3> DEFINE d == ToState(q, "UNCALIBRATED")
    <3>1. n = SlaveNode /\ n # MasterNode
      BY <2>6, <2>7, <2>10, NodesAssumption DEF Alike, Node
    <3>2. q.wrPortState = "IDLE"
      BY <2>6, <2>7 DEF Alike
    <3>3. /\ d.doRestart = q.doRestart /\ d.linkUP = q.linkUP
          /\ d.msgTmpWrMessageID = q.msgTmpWrMessageID
          /\ d.wrModeON => q.wrModeON
          /\ \/ /\ d.portState = "SLAVE" /\ d.wrPortState = "IDLE"
                /\ d.wrSubstate = q.wrSubstate /\ d.out = q.out
             \/ /\ d.portState = "UNCALIBRATED" /\ d.wrPortState = "PRESENT"
                /\ Sent(d, q, "PRESENT") /\ d.fresh /\ ~d.wrModeON
      BY <2>4, <3>2, ToUncalibratedLink
    <3>4. Decide(p) = d
      BY <2>10
    <3> HIDE DEF d
    <3>5. Up(d)
      BY <2>6, <3>3 DEF Up
    <3>6. Sent(d, q, "PRESENT") => Sent(d, p, "PRESENT")
      BY <2>6 DEF Sent, Alike
    <3> QED
      BY <2>6, <2>7, <3>1, <3>2, <3>3, <3>4, <3>5, <3>6 DEF Starts, Alike
  <2>11. CASE Decide(p) = q
    <3>1. Up(q)
      BY <2>6 DEF Up, Alike
    <3> QED
      BY <2>6, <2>11, <3>1 DEF Alike
  <2> QED
    BY <2>3, <2>8, <2>9, <2>10, <2>11
<1> QED
  BY <1>1, <1>2

\* How a port comes to the body of its state.
Prepared(n, p) ==
  /\ p \in Port /\ RoleOK(p) /\ ModeOK(n, p) /\ Up(p)
  /\ p.msgTmpWrMessageID = port[n].msgTmpWrMessageID
  /\ p.wrModeON => port[n].wrModeON
  /\ n = MasterNode /\ port[n].wrModeON => p.wrModeON
  /\ \/ /\ port[n].portState # "INITIALIZING"
        /\ p.wrPortState = port[n].wrPortState /\ p.wrSubstate = port[n].wrSubstate
        /\ p.out = <<>>
     \/ port[n].portState = "INITIALIZING" /\ p.wrPortState = "IDLE" /\ p.out = <<>>
     \/ /\ n = SlaveNode /\ Resting(port[n]) /\ p.wrPortState = "PRESENT" /\ p.fresh
        /\ \/ p.out = <<>>
           \/ \E m \in Message : p.out = <<m>> /\ m.type = "SLAVE_PRESENT"

\* A port without a fault that is about to take its turn is Prepared.
LEMMA ReadyLink ==
  ASSUME TypedAndDriven, Modes, NEW n \in Node, Awake(port[n])
  PROVE  Prepared(n, Ready(n))
<1> DEFINE o == port[n]
           c == CheckLink(o, TRUE)
           p == Decide(c)
<1>1. o \in Port /\ RoleOK(o) /\ ModeOK(n, o) /\ o.out = <<>>
  BY DEF TypedAndDriven, TypeOK, RoleConsistency, Modes
<1>2. c \in Port /\ RoleOK(c) /\ ModeOK(n, c)
  BY <1>1, CheckLinkType, CheckLinkMode
<1>3. /\ Up(c) /\ c.out = o.out
      /\ c.msgTmpWrMessageID = o.msgTmpWrMessageID
      /\ o.portState # "INITIALIZING" =>
           /\ c.wrPortState = o.wrPortState /\ c.wrSubstate = o.wrSubstate
           /\ c.wrModeON = o.wrModeON
      /\ o.portState = "INITIALIZING" => c.wrPortState = "IDLE" /\ ~c.wrModeON
  <2> HIDE DEF c
  <2> QED
    BY <1>1, CheckLinkLink DEF c
<1> HIDE DEF c
<1>4. p \in Port /\ RoleOK(p) /\ ModeOK(n, p)
  BY <1>2, DecideType, DecideMode
<1>5. /\ Up(p)
      /\ p.msgTmpWrMessageID = c.msgTmpWrMessageID
      /\ p.wrModeON => c.wrModeON
      /\ n = MasterNode => p.wrModeON = c.wrModeON
      /\ \/ p.wrPortState = c.wrPortState /\ p.wrSubstate = c.wrSubstate /\ p.out = c.out
         \/ n = SlaveNode /\ Starts(p, c)
  <2> HIDE DEF p
  <2> QED
    BY <1>2, <1>3, DecideLink DEF p
<1>6. Ready(n) = p
  BY DEF Ready, c
<1> HIDE DEF p
<1>7. ~(o.portState = "INITIALIZING" /\ o.wrModeON)
  BY DEF Awake
<1>8. CASE p.wrPortState = c.wrPortState /\ p.wrSubstate = c.wrSubstate /\ p.out = c.out
  BY <1>1, <1>3, <1>4, <1>5, <1>6, <1>7, <1>8 DEF Prepared
<1>9. CASE n = SlaveNode /\ Starts(p, c)
  <2>1. Resting(o)
    BY <1>3, <1>9 DEF Resting, Starts
  <2>2. p.out = <<>> \/ \E m \in Message : p.out = <<m>> /\ m.type = "SLAVE_PRESENT"
    <3>1. CASE p.out = c.out
      BY <1>1, <1>3, <3>1
    <3>2. ASSUME NEW m \in Message, p.out = Append(c.out, m), m.type = Signal("PRESENT")
          PROVE  p.out = <<m>> /\ m.type = "SLAVE_PRESENT"
      BY <1>1, <1>3, <3>2 DEF Signal
    <3> QED
      BY <1>9, <3>1, <3>2 DEF Starts, Sent
  <2> QED
    BY <1>3, <1>4, <1>5, <1>6, <1>7, <1>9, <2>1, <2>2 DEF Prepared, Starts
<1> QED
  BY <1>5, <1>8, <1>9

-----------------------------------------------------------------------------
(* Receiving.                                                              *)

\* handleAnnounce().
LEMMA HandleAnnounceLink ==
  ASSUME NEW p \in Port, NEW m \in Message
  PROVE  LET q == HandleAnnounce(p, m)
         IN  /\ SameLink(q, p) /\ q.portState = p.portState
             /\ q.msgTmpWrMessageID = p.msgTmpWrMessageID
<1> DEFINE u == UnpackAnnounce(p, m)
           a == AddForeign(p, m)
           q == HandleAnnounce(p, m)
<1>1. u \in Port /\ a \in Port
  BY UnpackAnnounceType, AddForeignType
<1>2. u.doRestart = p.doRestart /\ u.linkUP = p.linkUP /\ u.fresh = p.fresh
  BY DEF UnpackAnnounce, Port
<1>3. a.doRestart = p.doRestart /\ a.linkUP = p.linkUP /\ a.fresh = p.fresh
  <2> DEFINE b == IF p.foreign_record_i = 0 THEN u ELSE p
             d == [b EXCEPT !.number_foreign_records = 1,
                            !.foreign_record_i = (@ + 1) % MaxForeignRecords]
  <2>1. a = u \/ a = d
    BY DEF AddForeign
  <2> HIDE DEF a, u
  <2>2. b \in Port /\ b.doRestart = p.doRestart /\ b.linkUP = p.linkUP /\ b.fresh = p.fresh
    BY <1>1, <1>2
  <2> HIDE DEF b
  <2>3. d.doRestart = b.doRestart /\ d.linkUP = b.linkUP /\ d.fresh = b.fresh
    BY <2>2 DEF Port
  <2> HIDE DEF d
  <2> QED
    BY <1>2, <2>1, <2>2, <2>3
<1>4. q.doRestart = p.doRestart /\ q.linkUP = p.linkUP /\ q.fresh = p.fresh
  <2>1. \/ q = p
        \/ \E b \in {u, a} : q = [b EXCEPT !.record_update = TRUE, !.announceReceipt = TRUE]
        \/ q = [a EXCEPT !.record_update = TRUE]
    BY DEF HandleAnnounce
  <2>2. ASSUME NEW b \in Port
        PROVE  LET c == [b EXCEPT !.record_update = TRUE, !.announceReceipt = TRUE]
                   d == [b EXCEPT !.record_update = TRUE]
               IN  /\ c.doRestart = b.doRestart /\ c.linkUP = b.linkUP /\ c.fresh = b.fresh
                   /\ d.doRestart = b.doRestart /\ d.linkUP = b.linkUP /\ d.fresh = b.fresh
    BY DEF Port
  <2> HIDE DEF q, u, a
  <2>3. CASE q = p
    BY <2>3
  <2>4. CASE \E b \in {u, a} : q = [b EXCEPT !.record_update = TRUE, !.announceReceipt = TRUE]
    BY <1>1, <1>2, <1>3, <2>2, <2>4
  <2>5. CASE q = [a EXCEPT !.record_update = TRUE]
    BY <1>1, <1>3, <2>2, <2>5
  <2> QED
    BY <2>1, <2>3, <2>4, <2>5
<1>5. Alike(q, p)
  BY HandleAnnounceAlike
<1> HIDE DEF q
<1>6. SameLink(q, p)
  BY <1>4, <1>5 DEF SameLink, Alike
<1> QED
  BY <1>5, <1>6 DEF q, Alike

\* handle(): a signaling message is remembered; nothing else of the link setup
\* changes, except in a master that hears SLAVE_PRESENT.
Remembers(q, p, rx) ==
  /\ SameLink(q, p)
  /\ q.msgTmpWrMessageID = p.msgTmpWrMessageID \/ q.msgTmpWrMessageID = rx.type

\* A master in PTP_MASTER hears SLAVE_PRESENT and enters WRS_M_LOCK.
StartsOver(q, p) ==
  /\ q.wrPortState = "M_LOCK" /\ q.fresh
  /\ q.msgTmpWrMessageID = "SLAVE_PRESENT"
  /\ q.wrModeON => p.wrModeON
  /\ Sent(q, p, "M_LOCK")

\* What handle() does to the link setup, whatever the frame is.
LEMMA HandleLink ==
  ASSUME NEW n \in Node, NEW p \in Port, ModeOK(n, p), Up(p),
         NEW rx \in Message \cup {NoFrame}
  PROVE  LET q == Handle(p, rx)
         IN  /\ Up(q) /\ q.portState = p.portState
             /\ \/ Remembers(q, p, rx)
                \/ /\ n = MasterNode /\ p.portState = "MASTER" /\ rx \in Message
                   /\ StartsOver(q, p)
<1> DEFINE q == Handle(p, rx)
<1>1. CASE rx = NoFrame
  <2>1. q = p
    BY <1>1 DEF Handle, NoFrame
  <2> QED
    BY <2>1 DEF Remembers, SameLink
<1>2. CASE rx \in Message /\ rx.type = "ANNOUNCE"
  <2> DEFINE a == HandleAnnounce(p, rx)
  <2>1. q = a
    BY <1>2 DEF Handle
  <2>2. SameLink(a, p) /\ a.portState = p.portState
        /\ a.msgTmpWrMessageID = p.msgTmpWrMessageID
    BY <1>2, HandleAnnounceLink
  <2> HIDE DEF a, q
  <2>3. Up(a)
    BY <2>2 DEF Up, SameLink
  <2> QED
    BY <2>1, <2>2, <2>3 DEF Remembers, q
<1>3. CASE rx \in Message /\ rx.type # "ANNOUNCE"
  <2> DEFINE u == UnpackSignaling(p, rx)
             w == [u EXCEPT !.wrMode = "WR_MASTER"]
             t == ToWRState(w, "M_LOCK", 0)
  <2>1. q = u \/ (q = t /\ u.portState = "MASTER" /\ rx.type = "SLAVE_PRESENT")
    BY <1>3 DEF Handle, HandleSignaling, Message, SignalId
  <2>2. u \in Port
    BY <1>3, UnpackSignalingType
  <2>3. SameLink(u, p) /\ u.portState = p.portState /\ u.msgTmpWrMessageID = rx.type
    BY <1>3 DEF UnpackSignaling, SameLink, Port
  <2> HIDE DEF u
  <2>4. /\ w \in Port /\ SameLink(w, u) /\ w.portState = u.portState
        /\ w.msgTmpWrMessageID = u.msgTmpWrMessageID
    <3>1. w \in Port
      BY <2>2, StateUpdate DEF WrMode
    <3> QED
      BY <2>2, <3>1 DEF SameLink, Port
  <2> HIDE DEF w, q
  <2>5. /\ t.doRestart = w.doRestart /\ t.linkUP = w.linkUP
        /\ t.portState = w.portState
        /\ t.msgTmpWrMessageID = w.msgTmpWrMessageID
        /\ t.fresh = ("M_LOCK" # "IDLE")
        /\ t.wrPortState = "M_LOCK"
        /\ t.wrModeON = (w.wrModeON /\ w.wrPortState # "IDLE")
        /\ Sent(t, w, "M_LOCK")
    <3> HIDE DEF t
    <3>1. "M_LOCK" \in WrState /\ 0 \in Nat
      BY DEF WrState
    <3> QED
      BY <2>4, <3>1, ToWRStateLink DEF t
  <2> HIDE DEF t
  <2>6. CASE q = u
    <3>1. Up(u)
      BY <2>3 DEF Up, SameLink
    <3> QED
      BY <2>3, <2>6, <3>1 DEF Remembers, q
  <2>7. CASE q = t /\ u.portState = "MASTER" /\ rx.type = "SLAVE_PRESENT"
    <3>1. n = MasterNode
      BY <2>3, <2>7 DEF ModeOK, Placed, Node
    <3>2. Up(t) /\ t.portState = p.portState
      BY <2>3, <2>4, <2>5 DEF Up, SameLink
    <3>3. Sent(t, p, "M_LOCK")
      BY <2>3, <2>4, <2>5 DEF Sent, SameLink
    <3>4. StartsOver(t, p)
      BY <2>3, <2>4, <2>5, <2>7, <3>3 DEF StartsOver, SameLink
    <3> QED
      BY <1>3, <2>3, <2>7, <3>1, <3>2, <3>4 DEF q
  <2> QED
    BY <2>1, <2>6, <2>7
<1> QED
  BY <1>1, <1>2, <1>3

-----------------------------------------------------------------------------
(* The frames of a turn, on their way.                                     *)

\* The frames behind the first.
LEMMA TailFrames ==
  ASSUME NEW queue \in Seq(Message), queue # <<>>
  PROVE  /\ Len(queue) \in Nat /\ Len(queue) >= 1
         /\ Head(queue) = queue[1]
         /\ Len(Tail(queue)) = Len(queue) - 1
         /\ \A i \in 1 .. Len(Tail(queue)) : Tail(queue)[i] = queue[i + 1]
OBVIOUS

\* A buffer that takes frames keeps those it has, in order, and then holds
\* those that fit.
LEMMA DeliverFrames ==
  ASSUME NEW queue \in Seq(Message), NEW frames \in Seq(Message), Len(queue) <= QueueCap
  PROVE  LET d == Deliver(queue, frames)
         IN  /\ Len(d) \in Nat /\ Len(queue) \in Nat
             /\ Len(d) <= Len(queue) + Len(frames)
             /\ frames = <<>> => d = queue
             /\ \A i \in 1 .. Len(d) :
                  /\ i <= Len(queue) => d[i] = queue[i]
                  /\ i > Len(queue) =>
                       /\ i - Len(queue) \in 1 .. Len(frames)
                       /\ d[i] = frames[i - Len(queue)]
<1> DEFINE all == queue \o frames
           d == Deliver(queue, frames)
<1>1. /\ Len(queue) \in Nat /\ Len(frames) \in Nat /\ QueueCap \in Nat
      /\ all \in Seq(Message) /\ Len(all) = Len(queue) + Len(frames)
      /\ frames = <<>> => all = queue
  BY BoundAssumption
<1>2. \A i \in 1 .. Len(all) :
        all[i] = IF i <= Len(queue) THEN queue[i] ELSE frames[i - Len(queue)]
  BY <1>1
<1>3. d = IF Len(all) <= QueueCap THEN all ELSE SubSeq(all, 1, QueueCap)
  BY DEF Deliver
<1> HIDE DEF all, d
<1>4. /\ Len(d) \in Nat /\ Len(d) <= Len(all)
      /\ frames = <<>> => d = queue
      /\ \A i \in 1 .. Len(d) : d[i] = all[i]
  <2>1. CASE Len(all) <= QueueCap
    BY <1>1, <1>3, <2>1
  <2>2. CASE ~(Len(all) <= QueueCap)
    <3>1. d = SubSeq(all, 1, QueueCap) /\ QueueCap <= Len(all) /\ Len(all) \in Nat
      BY <1>1, <1>3, <2>2
    <3>2. Len(d) = QueueCap /\ \A i \in 1 .. QueueCap : d[i] = all[i]
      BY <1>1, <3>1
    <3> QED
      BY <1>1, <2>2, <3>1, <3>2
  <2> QED
    BY <2>1, <2>2
<1> SUFFICES /\ Len(d) \in Nat /\ Len(queue) \in Nat
             /\ Len(d) <= Len(queue) + Len(frames)
             /\ frames = <<>> => d = queue
             /\ \A i \in 1 .. Len(d) :
                  /\ i <= Len(queue) => d[i] = queue[i]
                  /\ i > Len(queue) =>
                       /\ i - Len(queue) \in 1 .. Len(frames)
                       /\ d[i] = frames[i - Len(queue)]
  BY DEF d
<1>5. ASSUME NEW i \in 1 .. Len(d)
      PROVE  /\ i <= Len(queue) => d[i] = queue[i]
             /\ i > Len(queue) => /\ i - Len(queue) \in 1 .. Len(frames)
                                  /\ d[i] = frames[i - Len(queue)]
  <2>1. i \in 1 .. Len(all) /\ d[i] = all[i]
    BY <1>1, <1>4
  <2> QED
    BY <1>1, <1>2, <2>1
<1> QED
  BY <1>1, <1>4, <1>5

\* What the end of a turn leaves of the port data set and of the two buffers.
LEMMA FinishLink ==
  ASSUME TypedAndDriven, cable, NEW n \in Node, NEW rx, NEW q \in Port, Finish(n, rx, q)
  PROVE  /\ port'[n].wrPortState = q.wrPortState
         /\ port'[n].wrSubstate = q.wrSubstate
         /\ port'[n].wrModeON = q.wrModeON
         /\ port'[n].portState = q.portState
         /\ port'[n].doRestart = q.doRestart
         /\ port'[n].linkUP = q.linkUP
         /\ port'[n].msgTmpWrMessageID = q.msgTmpWrMessageID
         /\ \A m \in Node \ {n} : port'[m] = port[m]
         /\ chan'[n] = IF rx \in Message THEN Tail(chan[n]) ELSE chan[n]
         /\ \A m \in Node \ {n} : chan'[m] = Deliver(chan[m], q.out)
         /\ cable'
<1>1. port \in [Node -> Port]
  BY DEF TypedAndDriven, TypeOK
<1> DEFINE e == [q EXCEPT !.globalStateDecisionEvent = q.record_update,
                          !.out = <<>>,
                          !.fresh = FALSE]
<1>2. /\ port' = [port EXCEPT ![n] = e]
      /\ chan' = [m \in Node |->
                    CASE m = n /\ rx \in Message -> Tail(chan[m])
                      [] m # n /\ cable -> Deliver(chan[m], q.out)
                      [] OTHER -> chan[m]]
      /\ cable' = cable
  BY DEF Finish
<1>3. /\ e.wrPortState = q.wrPortState /\ e.wrSubstate = q.wrSubstate
      /\ e.wrModeON = q.wrModeON /\ e.portState = q.portState
      /\ e.doRestart = q.doRestart /\ e.linkUP = q.linkUP
      /\ e.msgTmpWrMessageID = q.msgTmpWrMessageID
  BY DEF Port
<1> HIDE DEF e
<1>4. port'[n] = e /\ \A m \in Node \ {n} : port'[m] = port[m]
  BY <1>1, <1>2
<1>5. chan'[n] = IF rx \in Message THEN Tail(chan[n]) ELSE chan[n]
  BY <1>2
<1>6. \A m \in Node \ {n} : chan'[m] = Deliver(chan[m], q.out)
  BY <1>2
<1> QED
  BY <1>2, <1>3, <1>4, <1>5, <1>6

-----------------------------------------------------------------------------
(* The end of a turn keeps Lockstep.                                       *)

\* The frame a turn may have read as long as no fault happens.
Read(n, rx) ==
  /\ rx \in Message \cup {NoFrame}
  /\ rx \in Message => chan[n] # <<>> /\ rx = Head(chan[n])

\* The master has answered or hears the slave's CALIBRATED now.
Heard(rx) == HasAnswer(port[MasterNode]) \/ rx.type = "CALIBRATED"

\* Neither end has anything left to read or to answer.
Quiet ==
  chan[SlaveNode] = <<>> /\ chan[MasterNode] = <<>> /\ ~HasAnswer(port[MasterNode])

\* What a turn of the slave that reads rx may leave.
SlaveMove(rx, q) ==
  /\ Up(q) /\ q.msgTmpWrMessageID # "WR_MODE_ON"
  /\ \/ q.out = <<>>
     \/ /\ \E m \in Message :
             q.out = <<m>> /\ (m.type = "CALIBRATED" => q.wrPortState = "CALIBRATED")
        /\ ~SlaveWaits /\ ~Resting(q)
  /\ Resting(q) => chan[MasterNode] = <<>>
  /\ SlaveWaits => q.wrPortState = "CALIBRATED" \/ rx.type = "WR_MODE_ON" \/ Quiet
  /\ q.wrModeON => port[SlaveNode].wrModeON \/ rx.type = "WR_MODE_ON"

\* What a turn of the master that reads rx may leave.
IsModeOn(queue) == queue = <<[type |-> "WR_MODE_ON", flag |-> FALSE]>>
MasterMove(rx, q) ==
  /\ Up(q)
  /\ q.wrPortState = "RESP_CALIB_REQ" => q.msgTmpWrMessageID # "CALIBRATED"
  /\ HasAnswer(q) => Heard(rx)
  /\ \/ \A i \in 1 .. Len(q.out) : q.out[i].type # "WR_MODE_ON"
     \/ IsModeOn(q.out) /\ q.wrModeON /\ Heard(rx)
  /\ port[MasterNode].wrModeON /\ chan[MasterNode] = <<>> =>
       q.wrModeON /\ \A i \in 1 .. Len(q.out) : SaysOn(q.out[i])

\* In WR mode a port is at rest.
LEMMA ModeOnRests ==
  ASSUME Modes, NEW n \in Node, port[n].wrModeON
  PROVE  Resting(port[n]) /\ ~HasAnswer(port[n]) /\ port[n].wrPortState # "CALIBRATED"
BY DEF Modes, ModeOK, InWrMode, Resting, HasAnswer

\* A turn of the slave that is a SlaveMove keeps the two ends in step.
LEMMA SlaveFinish ==
  ASSUME TypedAndDriven, Modes, Lockstep, NEW rx, Read(SlaveNode, rx),
         NEW q \in Port, SlaveMove(rx, q), Finish(SlaveNode, rx, q)
  PROVE  Lockstep'
<1> DEFINE cs == chan[SlaveNode]
           cm == chan[MasterNode]
           ds == chan'[SlaveNode]
           dm == chan'[MasterNode]
<1>1. /\ SlaveNode \in Node /\ MasterNode \in Node \ {SlaveNode}
      /\ cs \in Seq(Message) /\ cm \in Seq(Message) /\ Len(cm) <= QueueCap
      /\ q.out \in Seq(Message) /\ cable
  BY NodesAssumption, PortFields DEF TypedAndDriven, TypeOK, Node, Lockstep, Healthy
<1>2. /\ port'[SlaveNode].wrPortState = q.wrPortState
      /\ port'[SlaveNode].wrModeON = q.wrModeON
      /\ port'[SlaveNode].portState = q.portState
      /\ port'[SlaveNode].doRestart = q.doRestart
      /\ port'[SlaveNode].linkUP = q.linkUP
      /\ port'[SlaveNode].msgTmpWrMessageID = q.msgTmpWrMessageID
      /\ port'[MasterNode] = port[MasterNode]
      /\ ds = IF rx \in Message THEN Tail(cs) ELSE cs
      /\ dm = Deliver(cm, q.out)
      /\ cable'
  BY <1>1, FinishLink DEF TypedAndDriven
<1>3. q.linkUP \in BOOLEAN /\ q.wrModeON \in BOOLEAN
  BY PortFields
<1> HIDE DEF cs, cm, ds, dm
<1>4. Healthy'
  <2>1. Awake(port[MasterNode])'
    BY <1>1, <1>2 DEF Lockstep, Healthy, Awake
  <2>2. Awake(port[SlaveNode])'
    BY <1>2, <1>3 DEF SlaveMove, Up, Awake
  <2> QED
    BY <1>2, <2>1, <2>2 DEF Healthy, Node
\* A WR_MODE_ON that is read finds the slave waiting, and nothing but announces behind it.
<1>5. rx.type = "WR_MODE_ON" =>
        /\ SlaveWaits /\ cm = <<>> /\ port[MasterNode].wrModeON
        /\ \A i \in 1 .. Len(ds) : SaysOn(ds[i])
  <2> SUFFICES ASSUME rx.type = "WR_MODE_ON"
               PROVE  /\ SlaveWaits /\ cm = <<>> /\ port[MasterNode].wrModeON
                      /\ \A i \in 1 .. Len(ds) : SaysOn(ds[i])
    OBVIOUS
  <2>1. rx \in Message /\ cs # <<>> /\ rx = Head(cs)
    BY DEF Read, NoFrame, cs
  <2>2. /\ Len(cs) \in Nat /\ Len(cs) >= 1 /\ rx = cs[1]
        /\ Len(ds) = Len(cs) - 1 /\ \A i \in 1 .. Len(ds) : ds[i] = cs[i + 1]
    BY <1>1, <1>2, <2>1, TailFrames
  <2>3. 1 \in 1 .. Len(cs) /\ cs[1].type = "WR_MODE_ON"
    BY <2>2
  <2>4. /\ SlaveWaits /\ cm = <<>> /\ port[MasterNode].wrModeON
        /\ \A j \in 1 + 1 .. Len(cs) : SaysOn(cs[j])
    BY <2>3 DEF Lockstep, ModeOnComes, cs, cm
  <2>5. ASSUME NEW i \in 1 .. Len(ds) PROVE SaysOn(ds[i])
    <3>1. i + 1 \in 1 + 1 .. Len(cs) /\ ds[i] = cs[i + 1]
      BY <2>2
    <3> QED
      BY <2>4, <3>1
  <2> QED
    BY <2>4, <2>5
\* A slave that waits has nothing to say.
<1>6. SlaveWaits /\ cm # <<>> => q.wrPortState = "CALIBRATED" /\ dm = cm
  <2>1. SlaveWaits /\ cm # <<>> => q.wrPortState = "CALIBRATED" /\ q.out = <<>>
    BY <1>5 DEF SlaveMove, Quiet, cm
  <2> QED
    BY <1>1, <1>2, <2>1, DeliverFrames
<1>7. SlaveWaits /\ cm = <<>> => dm = <<>>
  <2>1. SlaveWaits => q.out = <<>>
    BY DEF SlaveMove
  <2> QED
    BY <1>1, <1>2, <2>1, DeliverFrames
<1>8. NothingLeft'
  <2> SUFFICES ASSUME Resting(q) PROVE dm = <<>>
    BY <1>2 DEF NothingLeft, Resting, dm
  <2>1. q.out = <<>> /\ cm = <<>>
    BY DEF SlaveMove, cm
  <2> QED
    BY <1>1, <1>2, <2>1, DeliverFrames
<1>9. LastFrame'
  <2> SUFFICES ASSUME NEW i \in 1 .. Len(dm), dm[i].type = "CALIBRATED"
               PROVE  q.wrPortState = "CALIBRATED" /\ i = Len(dm)
    BY <1>2 DEF LastFrame, SlaveWaits, dm
  <2>1. /\ Len(dm) \in Nat /\ Len(cm) \in Nat
        /\ Len(dm) <= Len(cm) + Len(q.out)
        /\ i <= Len(cm) => dm[i] = cm[i]
        /\ i > Len(cm) => i - Len(cm) \in 1 .. Len(q.out) /\ dm[i] = q.out[i - Len(cm)]
    BY <1>1, <1>2, DeliverFrames
  <2>2. CASE i <= Len(cm)
    <3>1. i \in 1 .. Len(cm) /\ cm[i].type = "CALIBRATED"
      BY <2>1, <2>2
    <3>2. SlaveWaits /\ i = Len(cm)
      BY <3>1 DEF Lockstep, LastFrame, cm
    <3>3. cm # <<>>
      BY <3>1
    <3> QED
      BY <1>6, <3>2, <3>3
  <2>3. CASE ~(i <= Len(cm))
    <3>1. i - Len(cm) \in 1 .. Len(q.out) /\ dm[i] = q.out[i - Len(cm)]
      BY <2>1, <2>3
    <3>2. q.out # <<>>
      BY <3>1
    <3>3. PICK m \in Message :
            q.out = <<m>> /\ (m.type = "CALIBRATED" => q.wrPortState = "CALIBRATED")
      BY <3>2 DEF SlaveMove
    <3>4. Len(q.out) = 1 /\ q.out[1] = m
      BY <3>3
    <3>5. i - Len(cm) = 1
      BY <2>1, <3>1, <3>4
    <3>6. dm[i] = m /\ i = Len(dm)
      BY <2>1, <3>1, <3>4, <3>5
    <3> QED
      BY <3>3, <3>6
  <2> QED
    BY <2>2, <2>3
<1>10. Answered'
  <2> SUFFICES ASSUME HasAnswer(port[MasterNode])
               PROVE  q.wrPortState = "CALIBRATED" /\ dm = <<>>
    BY <1>2 DEF Answered, SlaveWaits, HasAnswer, dm
  <2>1. SlaveWaits /\ cm = <<>>
    BY DEF Lockstep, Answered, cm
  <2>2. rx.type # "WR_MODE_ON"
    BY <1>1, <1>5, ModeOnRests
  <2> QED
    BY <1>7, <2>1, <2>2 DEF SlaveMove, Quiet
<1>11. ModeOnComes'
  <2> SUFFICES ASSUME NEW i \in 1 .. Len(ds), ds[i].type = "WR_MODE_ON"
               PROVE  /\ q.wrPortState = "CALIBRATED" /\ dm = <<>>
                      /\ port[MasterNode].wrModeON
                      /\ \A j \in i + 1 .. Len(ds) : SaysOn(ds[j])
    BY <1>2 DEF ModeOnComes, SlaveWaits, ds, dm
  <2>1. rx.type # "WR_MODE_ON"
    BY <1>5 DEF SaysOn
  <2>2. PICK k \in {0, 1} : /\ Len(ds) = Len(cs) - k /\ Len(cs) \in Nat
                            /\ \A j \in 1 .. Len(ds) : ds[j] = cs[j + k]
    <3>1. CASE rx \in Message
      <4>1. cs # <<>>
        BY <3>1 DEF Read, cs
      <4>2. ds = Tail(cs) /\ cs \in Seq(Message)
        BY <1>1, <1>2, <3>1
      <4>3. /\ Len(Tail(cs)) = Len(cs) - 1 /\ Len(cs) \in Nat
            /\ \A j \in 1 .. Len(Tail(cs)) : Tail(cs)[j] = cs[j + 1]
        BY <4>1, <4>2, TailFrames
      <4> QED
        BY <4>2, <4>3
    <3>2. CASE rx \notin Message
      <4>1. ds = cs /\ Len(cs) \in Nat
        BY <1>1, <1>2, <3>2
      <4>2. Len(ds) = Len(cs) - 0 /\ \A j \in 1 .. Len(ds) : ds[j] = cs[j + 0]
        BY <4>1
      <4> QED
        BY <4>1, <4>2, Zenon
    <3> QED
      BY <3>1, <3>2
  <2>3. i + k \in 1 .. Len(cs) /\ cs[i + k].type = "WR_MODE_ON"
    BY <2>2
  <2>4. /\ SlaveWaits /\ cm = <<>> /\ port[MasterNode].wrModeON
        /\ \A j \in (i + k) + 1 .. Len(cs) : SaysOn(cs[j])
    BY <2>3 DEF Lockstep, ModeOnComes, cs, cm
  <2>5. ASSUME NEW j \in i + 1 .. Len(ds) PROVE SaysOn(ds[j])
    <3>1. j \in 1 .. Len(ds) /\ j + k \in (i + k) + 1 .. Len(cs)
      BY <2>2
    <3> QED
      BY <2>2, <2>4, <3>1
  <2>6. cs # <<>>
    BY <2>3
  <2> QED
    BY <1>7, <2>1, <2>4, <2>5, <2>6 DEF SlaveMove, Quiet, cs
<1>12. BothOn'
  <2> SUFFICES ASSUME q.wrModeON
               PROVE  /\ port[MasterNode].wrModeON
                      /\ \A i \in 1 .. Len(ds) : ds[i].type = "ANNOUNCE" => ds[i].flag
    BY <1>2 DEF BothOn, ds
  <2>1. CASE rx.type = "WR_MODE_ON"
    BY <1>5, <2>1 DEF SaysOn
  <2>2. CASE port[SlaveNode].wrModeON
    <3>1. /\ port[MasterNode].wrModeON
          /\ \A i \in 1 .. Len(cs) : cs[i].type = "ANNOUNCE" => cs[i].flag
      BY <2>2 DEF Lockstep, BothOn, cs
    <3>2. CASE rx \in Message
      <4>1. cs # <<>>
        BY <3>2 DEF Read, cs
      <4>2. Len(ds) = Len(cs) - 1 /\ Len(cs) \in Nat /\ \A j \in 1 .. Len(ds) : ds[j] = cs[j + 1]
        BY <1>1, <1>2, <3>2, <4>1, TailFrames
      <4>3. ASSUME NEW i \in 1 .. Len(ds), ds[i].type = "ANNOUNCE"
            PROVE  ds[i].flag
        <5>1. i + 1 \in 1 .. Len(cs) /\ ds[i] = cs[i + 1]
          BY <4>2
        <5> QED
          BY <3>1, <4>3, <5>1
      <4> QED
        BY <3>1, <4>3
    <3>3. CASE rx \notin Message
      BY <1>2, <3>1, <3>3
    <3> QED
      BY <3>2, <3>3
  <2> QED
    BY <2>1, <2>2 DEF SlaveMove
<1>13. Forgotten'
  BY <1>2 DEF SlaveMove, Lockstep, Forgotten
<1> QED
  BY <1>4, <1>8, <1>9, <1>10, <1>11, <1>12, <1>13 DEF Lockstep

\* A turn of the master that is a MasterMove keeps the two ends in step.
LEMMA MasterFinish ==
  ASSUME TypedAndDriven, Modes, Lockstep, NEW rx, Read(MasterNode, rx),
         NEW q \in Port, MasterMove(rx, q), Finish(MasterNode, rx, q)
  PROVE  Lockstep'
<1> DEFINE cs == chan[SlaveNode]
           cm == chan[MasterNode]
           ds == chan'[SlaveNode]
           dm == chan'[MasterNode]
<1>1. /\ MasterNode \in Node /\ SlaveNode \in Node \ {MasterNode}
      /\ cs \in Seq(Message) /\ cm \in Seq(Message) /\ Len(cs) <= QueueCap
      /\ q.out \in Seq(Message) /\ cable
  BY NodesAssumption, PortFields DEF TypedAndDriven, TypeOK, Node, Lockstep, Healthy
<1>2. /\ port'[MasterNode].wrPortState = q.wrPortState
      /\ port'[MasterNode].wrSubstate = q.wrSubstate
      /\ port'[MasterNode].wrModeON = q.wrModeON
      /\ port'[MasterNode].portState = q.portState
      /\ port'[MasterNode].doRestart = q.doRestart
      /\ port'[MasterNode].linkUP = q.linkUP
      /\ port'[MasterNode].msgTmpWrMessageID = q.msgTmpWrMessageID
      /\ port'[SlaveNode] = port[SlaveNode]
      /\ dm = IF rx \in Message THEN Tail(cm) ELSE cm
      /\ ds = Deliver(cs, q.out)
      /\ cable'
  BY <1>1, FinishLink DEF TypedAndDriven
<1>3. q.linkUP \in BOOLEAN
  BY PortFields
<1> HIDE DEF cs, cm, ds, dm
<1>4. Healthy'
  <2>1. Awake(port[SlaveNode])'
    BY <1>1, <1>2 DEF Lockstep, Healthy, Awake
  <2>2. Awake(port[MasterNode])'
    BY <1>2, <1>3 DEF MasterMove, Up, Awake
  <2> QED
    BY <1>2, <2>1, <2>2 DEF Healthy, Node
\* The frames to the master that are left were on their way before.
<1>5. PICK k \in {0, 1} : /\ Len(dm) = Len(cm) - k /\ Len(cm) \in Nat
                          /\ rx \in Message => k = 1 /\ rx = cm[1]
                          /\ \A j \in 1 .. Len(dm) : dm[j] = cm[j + k]
  <2>1. CASE rx \in Message
    <3>1. cm # <<>> /\ rx = Head(cm)
      BY <2>1 DEF Read, cm
    <3>2. /\ Len(dm) = Len(cm) - 1 /\ Len(cm) \in Nat /\ rx = cm[1]
          /\ \A j \in 1 .. Len(dm) : dm[j] = cm[j + 1]
      BY <1>1, <1>2, <2>1, <3>1, TailFrames
    <3> QED
      BY <3>2
  <2>2. CASE rx \notin Message
    <3>1. dm = cm /\ Len(cm) \in Nat
      BY <1>1, <1>2, <2>2
    <3>2. Len(dm) = Len(cm) - 0 /\ \A j \in 1 .. Len(dm) : dm[j] = cm[j + 0]
      BY <3>1
    <3> QED
      BY <2>2, <3>1, <3>2, Zenon
  <2> QED
    BY <2>1, <2>2
<1>6. cm = <<>> => dm = <<>> /\ rx \notin Message
  <2>1. cm = <<>> => rx \notin Message
    BY DEF Read, cm
  <2> QED
    BY <1>2, <2>1
\* The slave's CALIBRATED comes last.
<1>7. Heard(rx) => SlaveWaits /\ dm = <<>>
  <2>1. CASE HasAnswer(port[MasterNode])
    BY <1>6, <2>1 DEF Lockstep, Answered, cm
  <2>2. CASE rx.type = "CALIBRATED"
    <3>1. rx \in Message
      BY <2>2 DEF Read, NoFrame
    <3>2. k = 1 /\ rx = cm[1] /\ Len(cm) \in Nat /\ cm # <<>>
      BY <1>5, <3>1 DEF Read, cm
    <3>3. 1 \in 1 .. Len(cm)
      BY <1>1, <3>2
    <3>4. SlaveWaits /\ 1 = Len(cm)
      BY <2>2, <3>2, <3>3 DEF Lockstep, LastFrame, cm
    <3>5. dm = Tail(cm)
      BY <1>2, <3>1
    <3>6. dm = <<>>
      BY <1>1, <3>4, <3>5
    <3> QED
      BY <3>4, <3>6
  <2> QED
    BY <2>1, <2>2 DEF Heard
\* A master in WR mode with nothing to read goes on saying so.
<1>8. port[MasterNode].wrModeON /\ cm = <<>> =>
        q.wrModeON /\ \A i \in 1 .. Len(q.out) : SaysOn(q.out[i])
  BY DEF MasterMove, cm
<1>9. NothingLeft'
  BY <1>2, <1>6 DEF Lockstep, NothingLeft, Resting, cm, dm
<1>10. LastFrame'
  <2> SUFFICES ASSUME NEW i \in 1 .. Len(dm), dm[i].type = "CALIBRATED"
               PROVE  SlaveWaits /\ i = Len(dm)
    BY <1>2 DEF LastFrame, SlaveWaits, dm
  <2>1. i + k \in 1 .. Len(cm) /\ cm[i + k].type = "CALIBRATED"
    BY <1>5
  <2>2. SlaveWaits /\ i + k = Len(cm)
    BY <2>1 DEF Lockstep, LastFrame, cm
  <2> QED
    BY <1>5, <2>2
<1>11. Answered'
  <2> SUFFICES ASSUME HasAnswer(q) PROVE SlaveWaits /\ dm = <<>>
    BY <1>2 DEF Answered, SlaveWaits, HasAnswer, dm
  <2> QED
    BY <1>7 DEF MasterMove
<1>12. /\ Len(ds) \in Nat /\ Len(cs) \in Nat
       /\ Len(ds) <= Len(cs) + Len(q.out)
       /\ \A i \in 1 .. Len(ds) :
            /\ i <= Len(cs) => ds[i] = cs[i]
            /\ i > Len(cs) => /\ i - Len(cs) \in 1 .. Len(q.out)
                              /\ ds[i] = q.out[i - Len(cs)]
  BY <1>1, <1>2, DeliverFrames
<1>13. ModeOnComes'
  <2> SUFFICES ASSUME NEW i \in 1 .. Len(ds), ds[i].type = "WR_MODE_ON"
               PROVE  /\ SlaveWaits /\ dm = <<>> /\ q.wrModeON
                      /\ \A j \in i + 1 .. Len(ds) : SaysOn(ds[j])
    BY <1>2 DEF ModeOnComes, SlaveWaits, ds, dm
  <2>1. CASE i <= Len(cs)
    <3>1. i \in 1 .. Len(cs) /\ cs[i].type = "WR_MODE_ON"
      BY <1>12, <2>1
    <3>2. /\ SlaveWaits /\ cm = <<>> /\ port[MasterNode].wrModeON
          /\ \A j \in i + 1 .. Len(cs) : SaysOn(cs[j])
      BY <3>1 DEF Lockstep, ModeOnComes, cs, cm
    <3>3. q.wrModeON /\ \A j \in 1 .. Len(q.out) : SaysOn(q.out[j])
      BY <1>8, <3>2
    <3>4. ASSUME NEW j \in i + 1 .. Len(ds) PROVE SaysOn(ds[j])
      <4>1. j \in 1 .. Len(ds) /\ j \in Nat /\ j >= i + 1
        BY <1>12
      <4>2. CASE j <= Len(cs)
        BY <1>12, <3>2, <4>1, <4>2
      <4>3. CASE j > Len(cs)
        BY <1>12, <3>3, <4>1, <4>3
      <4> QED
        BY <1>12, <4>1, <4>2, <4>3
    <3> QED
      BY <1>6, <3>2, <3>3, <3>4
  <2>2. CASE i > Len(cs)
    <3>1. i - Len(cs) \in 1 .. Len(q.out) /\ ds[i] = q.out[i - Len(cs)]
      BY <1>12, <2>2
    <3>2. IsModeOn(q.out) /\ q.wrModeON /\ Heard(rx)
      BY <3>1 DEF MasterMove
    <3>3. Len(q.out) = 1
      BY <3>2 DEF IsModeOn
    <3>4. i = Len(ds)
      BY <1>12, <3>1, <3>3
    <3>5. i + 1 .. Len(ds) = {}
      BY <1>12, <3>4
    <3> QED
      BY <1>7, <3>2, <3>5
  <2> QED
    BY <1>12, <2>1, <2>2
<1>14. BothOn'
  <2> SUFFICES ASSUME port[SlaveNode].wrModeON
               PROVE  /\ q.wrModeON
                      /\ \A i \in 1 .. Len(ds) : ds[i].type = "ANNOUNCE" => ds[i].flag
    BY <1>2 DEF BothOn, ds
  <2>1. Resting(port[SlaveNode])
    BY <1>1, ModeOnRests
  <2>2. cm = <<>>
    BY <2>1 DEF Lockstep, NothingLeft, cm
  <2>3. /\ port[MasterNode].wrModeON
        /\ \A i \in 1 .. Len(cs) : cs[i].type = "ANNOUNCE" => cs[i].flag
    BY DEF Lockstep, BothOn, cs
  <2>4. q.wrModeON /\ \A i \in 1 .. Len(q.out) : SaysOn(q.out[i])
    BY <1>8, <2>2, <2>3
  <2>5. ASSUME NEW i \in 1 .. Len(ds), ds[i].type = "ANNOUNCE"
        PROVE  ds[i].flag
    <3>1. CASE i <= Len(cs)
      BY <1>12, <2>3, <2>5, <3>1
    <3>2. CASE i > Len(cs)
      BY <1>12, <2>4, <3>2 DEF SaysOn
    <3> QED
      BY <1>12, <3>1, <3>2
  <2> QED
    BY <2>4, <2>5
<1>15. Forgotten'
  BY <1>2 DEF MasterMove, Lockstep, Forgotten
<1> QED
  BY <1>4, <1>9, <1>10, <1>11, <1>13, <1>14, <1>15 DEF Lockstep

-----------------------------------------------------------------------------
(* The bodies outside the link setup.                                      *)

\* A turn without a fault reads the next frame or nothing.
LEMMA NoFaultRead ==
  ASSUME TypedAndDriven, faults = 0, faults' = 0, NEW n \in Node, NEW rx \in Frames(n),
         NEW q, Finish(n, rx, q)
  PROVE  Read(n, rx)
<1>1. rx \notin {RecvError, DelayResp}
  BY DEF Finish
<1>2. chan[n] \in Seq(Message)
  BY DEF TypedAndDriven, TypeOK
<1>3. chan[n] # <<>> => Head(chan[n]) \in Message
  BY <1>2
<1>4. NoFrame \notin Message
  BY DEF NoFrame, Message, SignalId
<1> QED
  BY <1>1, <1>3, <1>4 DEF Frames, Read

\* A turn without a frame reads none.
LEMMA NoFrameRead ==
  ASSUME NEW n
  PROVE  Read(n, NoFrame)
<1>1. NoFrame \notin Message
  BY DEF NoFrame, Message, SignalId
<1> QED
  BY <1>1 DEF Read

\* A slow timer expires only where nothing is on its way and nobody has a
\* step to take.
LEMMA ExpiredQuiet ==
  ASSUME SlowTimers, cable, NEW n \in Node, MayExpire(n)
  PROVE  Quiet
<1>1. ~Busy(SlaveNode) /\ ~Busy(MasterNode)
  BY NodesAssumption DEF MayExpire, Peer, Node
<1>2. ~HasAnswer(port[MasterNode])
  <2>1. port[MasterNode].wrPortState = "RESP_CALIB_REQ" => port[MasterNode].wrSubstate = 1
    BY <1>1 DEF Busy
  <2> QED
    BY <2>1 DEF HasAnswer
<1> QED
  BY <1>1, <1>2 DEF Busy, Quiet

\* A slave that waits for WR_MODE_ON still does when it comes to its body.
LEMMA PreparedWaits ==
  ASSUME Lockstep, NEW p, Prepared(SlaveNode, p), SlaveWaits
  PROVE  p.wrPortState = "CALIBRATED" /\ p.out = <<>>
<1>1. Awake(port[SlaveNode])
  BY DEF Lockstep, Healthy, Node
<1> QED
  BY <1>1 DEF Prepared, SlaveWaits, Resting, Awake

\* WR_MODE_ON is read by a slave that waits for it, with nothing left on its way
\* to a master in WR mode.
LEMMA ModeOnRead ==
  ASSUME TypedAndDriven, Lockstep, NEW rx, Read(SlaveNode, rx), rx.type = "WR_MODE_ON"
  PROVE  SlaveWaits /\ chan[MasterNode] = <<>>
<1> DEFINE cs == chan[SlaveNode]
<1>1. cs \in Seq(Message)
  BY DEF TypedAndDriven, TypeOK, Node
<1>2. rx \in Message /\ cs # <<>> /\ rx = Head(cs)
  BY DEF Read, NoFrame
<1> HIDE DEF cs
<1>3. 1 \in 1 .. Len(cs) /\ cs[1].type = "WR_MODE_ON"
  BY <1>1, <1>2, TailFrames
<1> QED
  BY <1>3 DEF Lockstep, ModeOnComes, cs

\* A slave that is in no link setup, and starts none.
LEMMA SlaveRests ==
  ASSUME TypedAndDriven, Lockstep, NEW rx, Read(SlaveNode, rx),
         NEW p, Prepared(SlaveNode, p), p.wrPortState \in {"IDLE", "WR_LINK_ON"},
         NEW q, Up(q), q.wrPortState = "IDLE", q.out = <<>>,
         q.msgTmpWrMessageID \in {p.msgTmpWrMessageID, rx.type, "NULL_WR_TLV"},
         q.wrModeON => p.wrModeON
  PROVE  SlaveMove(rx, q)
<1>1. ~SlaveWaits
  BY PreparedWaits
<1>2. rx.type # "WR_MODE_ON"
  BY <1>1, ModeOnRead
<1>3. q.msgTmpWrMessageID # "WR_MODE_ON"
  BY <1>2 DEF Prepared, Lockstep, Forgotten
<1>4. Resting(port[SlaveNode])
  BY DEF Prepared, Resting
<1>5. chan[MasterNode] = <<>>
  BY <1>4 DEF Lockstep, NothingLeft
<1> QED
  BY <1>1, <1>3, <1>5 DEF SlaveMove, Prepared

\* A master that is in no link setup, or hears of one.
LEMMA MasterRests ==
  ASSUME NEW rx, NEW p, Prepared(MasterNode, p),
         NEW q, Up(q), q.wrPortState \in {"IDLE", "M_LOCK"},
         p.wrModeON /\ chan[MasterNode] = <<>> => q.wrModeON,
         \A i \in 1 .. Len(q.out) : q.out[i].type # "WR_MODE_ON",
         p.wrModeON /\ chan[MasterNode] = <<>> =>
           \A i \in 1 .. Len(q.out) : SaysOn(q.out[i])
  PROVE  MasterMove(rx, q)
BY DEF MasterMove, Prepared, HasAnswer

\* A turn that is no turn of a running daemon.
LEMMA InitializingLink ==
  ASSUME NEW n \in Node, NEW p, Prepared(n, p), Initializing(n, p)
  PROVE  FALSE
BY DEF Prepared, Up, Initializing

\* A port without a fault is in no state that the loop passes through.
LEMMA PassThroughLink ==
  ASSUME NEW n \in Node, NEW p, Prepared(n, p), PassThrough(n, p)
  PROVE  FALSE
BY DEF Prepared, Up, PassThrough, RoleOK, Driven

\* A port that is neither UNCALIBRATED nor MASTER runs no link setup.
LEMMA NotDrivenIdle ==
  ASSUME NEW n, NEW p, Prepared(n, p), p.portState \notin {"UNCALIBRATED", "MASTER"}
  PROVE  p.wrPortState = "IDLE" /\ p.out = <<>>
BY DEF Prepared, RoleOK, Driven, Up

\* A turn in PTP_DISABLED.
LEMMA DisabledLink ==
  ASSUME TypedAndDriven, Modes, Lockstep, faults = 0, faults' = 0,
         NEW n \in Node, NEW p, Prepared(n, p), NEW rx \in Frames(n), Disabled(n, p, rx)
  PROVE  Lockstep'
<1> DEFINE q == Handle(p, rx)
<1>1. p.portState = "DISABLED" /\ Finish(n, rx, q)
  BY DEF Disabled
<1>2. Read(n, rx)
  BY <1>1, NoFaultRead
<1>3. p \in Port /\ ModeOK(n, p) /\ Up(p)
  BY DEF Prepared
<1>4. p.wrPortState = "IDLE" /\ p.out = <<>>
  BY <1>1, NotDrivenIdle
<1>5. q \in Port
  BY <1>3, FramesMode, HandleType
<1>6. Up(q) /\ Remembers(q, p, rx)
  BY <1>1, <1>2, <1>3, HandleLink DEF Read
<1> HIDE DEF q
<1>7. q.out = <<>> /\ q.wrPortState = "IDLE"
  BY <1>4, <1>6 DEF Remembers, SameLink
<1>8. CASE n = SlaveNode
  <2>1. SlaveMove(rx, q)
    BY <1>2, <1>4, <1>6, <1>7, <1>8, SlaveRests DEF Remembers, SameLink
  <2> QED
    BY <1>1, <1>2, <1>5, <1>8, <2>1, SlaveFinish
<1>9. CASE n = MasterNode
  <2>1. 1 .. Len(q.out) = {}
    BY <1>7
  <2>2. MasterMove(rx, q)
    BY <1>6, <1>7, <1>9, <2>1, MasterRests DEF Remembers, SameLink
  <2> QED
    BY <1>1, <1>2, <1>5, <1>9, <2>2, MasterFinish
<1> QED
  BY <1>8, <1>9 DEF Node

\* A turn of a port that is a master only, in PTP_LISTENING.
LEMMA ListeningMasterLink ==
  ASSUME TypedAndDriven, Modes, Lockstep,
         NEW n \in Node, NEW p, Prepared(n, p), ListeningMaster(n, p)
  PROVE  Lockstep'
<1> DEFINE m == M1(p)
           q == ToState(m, "MASTER")
<1>1. p.portState = "LISTENING" /\ p.wrConfig = "WR_M_ONLY" /\ Finish(n, NoFrame, q)
  BY DEF ListeningMaster
<1>2. p \in Port /\ ModeOK(n, p) /\ Up(p)
  BY DEF Prepared
<1>3. n = MasterNode
  BY <1>1, <1>2 DEF ModeOK, Placed, Node
<1>4. p.wrPortState = "IDLE" /\ p.out = <<>>
  BY <1>1, NotDrivenIdle
<1>5. /\ m \in Port /\ Alike(m, p)
      /\ m.linkUP = p.linkUP /\ m.doRestart = p.doRestart
  <2>1. m \in Port /\ Alike(m, p)
    BY <1>2, M1Type, BmcAlike
  <2>2. m.linkUP = p.linkUP /\ m.doRestart = p.doRestart
    BY <1>2 DEF M1, Port
  <2> QED
    BY <2>1, <2>2
<1> HIDE DEF m
<1>6. "MASTER" \in PortState /\ "MASTER" # "UNCALIBRATED"
  BY DEF PortState
<1>7. q \in Port
  BY <1>5, <1>6, ToStateType
<1>8. /\ q.wrPortState = m.wrPortState /\ q.out = m.out
      /\ q.doRestart = m.doRestart /\ q.linkUP = m.linkUP
      /\ m.portState # "SLAVE" => q.wrModeON = m.wrModeON
      /\ q.portState = IF m.wrPortState = "IDLE" THEN "MASTER" ELSE m.portState
  BY <1>5, <1>6, ToStateLink
<1> HIDE DEF q
<1>9. /\ Up(q) /\ q.wrPortState = "IDLE" /\ q.wrModeON = p.wrModeON
      /\ q.out = <<>>
  BY <1>1, <1>2, <1>4, <1>5, <1>8 DEF Alike, Up
<1>10. 1 .. Len(q.out) = {}
  BY <1>9
<1>11. MasterMove(NoFrame, q)
  BY <1>3, <1>9, <1>10, MasterRests
<1> QED
  BY <1>1, <1>3, <1>7, <1>11, NoFrameRead, MasterFinish

\* A turn in PTP_LISTENING or PTP_SLAVE: a frame, or the announce timeout.
LEMMA ListeningOrSlaveLink ==
  ASSUME TypedAndDriven, Modes, Lockstep, faults = 0, faults' = 0,
         NEW n \in Node, NEW p, Prepared(n, p), NEW rx \in Frames(n), NEW expired,
         ListeningOrSlave(n, p, rx, expired)
  PROVE  Lockstep'
<1> DEFINE q == Handle(p, rx)
           a == [q EXCEPT !.number_foreign_records = 0,
                          !.foreign_record_i = 0,
                          !.wrMode = "NON_WR",
                          !.wrModeON = FALSE]
           l == ToState(a, "LISTENING")
           t == AnnounceReceiptTimeout(q)
<1>1. /\ p.portState \in {"LISTENING", "SLAVE"} /\ p.wrConfig # "WR_M_ONLY"
      /\ Finish(n, rx, t) \/ Finish(n, rx, q)
  BY DEF ListeningOrSlave
<1>2. Read(n, rx)
  BY <1>1, NoFaultRead
<1>3. p \in Port /\ ModeOK(n, p) /\ Up(p)
  BY DEF Prepared
<1>4. p.wrPortState = "IDLE" /\ p.out = <<>>
  BY <1>1, NotDrivenIdle
<1>5. n = SlaveNode
  BY <1>1, <1>3 DEF ModeOK, Placed, Node
<1>6. q \in Port
  BY <1>3, FramesMode, HandleType
<1>7. Up(q) /\ Remembers(q, p, rx)
  BY <1>1, <1>2, <1>3, HandleLink DEF Read
<1>8. t = a \/ t = l
  BY DEF AnnounceReceiptTimeout
<1> HIDE DEF q
<1>9. q.wrPortState = "IDLE" /\ q.out = <<>>
  BY <1>4, <1>7 DEF Remembers, SameLink
<1>10. a \in Port
  <2> DEFINE a1 == [q EXCEPT !.number_foreign_records = 0]
             a2 == [a1 EXCEPT !.foreign_record_i = 0]
             a3 == [a2 EXCEPT !.wrMode = "NON_WR"]
             a4 == [a3 EXCEPT !.wrModeON = FALSE]
  <2>1. a = a4
    OBVIOUS
  <2> HIDE DEF a, a1, a2, a3, a4, t, l
  <2>2. a1 \in Port
    BY <1>6, DataUpdate DEF a1
  <2>3. a2 \in Port
    <3>1. 0 \in RecordIndex
      BY TableAssumption DEF RecordIndex
    <3> QED
      BY <2>2, <3>1, DataUpdate DEF a2
  <2>4. a3 \in Port
    BY <2>3, StateUpdate DEF a3, WrMode
  <2>5. a4 \in Port
    BY <2>4, BooleanUpdate DEF a4
  <2> QED
    BY <2>1, <2>5
<1>11. /\ a.wrPortState = q.wrPortState /\ a.out = q.out /\ ~a.wrModeON
       /\ a.portState = q.portState /\ a.doRestart = q.doRestart /\ a.linkUP = q.linkUP
       /\ a.msgTmpWrMessageID = q.msgTmpWrMessageID
  BY <1>6 DEF Port
<1> HIDE DEF a, t
<1>12. /\ l \in Port
       /\ l.wrPortState = a.wrPortState /\ l.out = a.out /\ (l.wrModeON => a.wrModeON)
       /\ l.doRestart = a.doRestart /\ l.linkUP = a.linkUP
       /\ l.msgTmpWrMessageID = a.msgTmpWrMessageID
       /\ l.portState = IF a.wrPortState = "IDLE" THEN "LISTENING" ELSE a.portState
  <2>1. "LISTENING" \in PortState /\ "LISTENING" # "UNCALIBRATED"
    BY DEF PortState
  <2>2. l \in Port
    BY <1>10, <2>1, ToStateType
  <2>3. /\ l.wrPortState = a.wrPortState /\ l.out = a.out /\ (l.wrModeON => a.wrModeON)
        /\ l.doRestart = a.doRestart /\ l.linkUP = a.linkUP
        /\ l.msgTmpWrMessageID = a.msgTmpWrMessageID
        /\ l.portState = IF a.wrPortState = "IDLE" THEN "LISTENING" ELSE a.portState
    BY <1>10, <2>1, ToStateLink
  <2> QED
    BY <2>2, <2>3
<1> HIDE DEF l
<1>13. Up(a) /\ Up(l)
  BY <1>7, <1>9, <1>11, <1>12 DEF Up
<1>14. ASSUME NEW r \in {q, a, l}
       PROVE  r \in Port /\ SlaveMove(rx, r)
  <2>1. /\ Up(r) /\ r.wrPortState = "IDLE" /\ r.out = <<>>
        /\ r.wrModeON => p.wrModeON
        /\ r.msgTmpWrMessageID \in {p.msgTmpWrMessageID, rx.type, "NULL_WR_TLV"}
    BY <1>7, <1>9, <1>11, <1>12, <1>13 DEF Remembers, SameLink
  <2>2. SlaveMove(rx, r)
    BY <1>2, <1>4, <1>5, <2>1, SlaveRests
  <2> QED
    BY <1>6, <1>10, <1>12, <2>2
<1>15. PICK r \in {q, a, l} : Finish(n, rx, r)
  BY <1>1, <1>8
<1> QED
  BY <1>2, <1>5, <1>14, <1>15, SlaveFinish

\* A master starts with nothing to send.
LEMMA MasterSilent ==
  ASSUME NEW p, Prepared(MasterNode, p)
  PROVE  p.out = <<>>
BY NodesAssumption DEF Prepared

\* The announce of a master says whether it is in WR mode.
LEMMA AnnounceLink ==
  ASSUME NEW q \in Port
  PROVE  LET r == Send(q, "ANNOUNCE", q.wrModeON)
         IN  /\ r \in Port
             /\ r.portState = q.portState /\ r.wrPortState = q.wrPortState
             /\ r.wrModeON = q.wrModeON
             /\ r.doRestart = q.doRestart /\ r.linkUP = q.linkUP
             /\ r.out = Append(q.out, [type |-> "ANNOUNCE", flag |-> q.wrModeON])
<1> DEFINE r == Send(q, "ANNOUNCE", q.wrModeON)
<1>1. q.wrModeON \in BOOLEAN /\ q.out \in Seq(Message)
  BY PortFields
<1>2. r \in Port
  BY <1>1, SendType
<1>3. /\ r.portState = q.portState /\ r.wrPortState = q.wrPortState
      /\ r.wrModeON = q.wrModeON
      /\ r.doRestart = q.doRestart /\ r.linkUP = q.linkUP
      /\ r.out = Append(q.out, [type |-> "ANNOUNCE", flag |-> q.wrModeON])
  BY <1>1 DEF Send, Port
<1> QED
  BY <1>2, <1>3

\* The frames of a sequence and of one more.
LEMMA AppendFrames ==
  ASSUME NEW queue \in Seq(Message), NEW m
  PROVE  /\ Append(queue, m) # <<>>
         /\ \A i \in 1 .. Len(Append(queue, m)) :
              Append(queue, m)[i] = m \/ \E j \in 1 .. Len(queue) : Append(queue, m)[i] = queue[j]
<1>1. Len(Append(queue, m)) = Len(queue) + 1 /\ Len(queue) \in Nat
  OBVIOUS
<1>2. ASSUME NEW i \in 1 .. Len(Append(queue, m))
      PROVE  \/ Append(queue, m)[i] = m
             \/ \E j \in 1 .. Len(queue) : Append(queue, m)[i] = queue[j]
  <2>1. CASE i = Len(queue) + 1
    BY <1>1, <2>1
  <2>2. CASE i # Len(queue) + 1
    <3>1. i \in 1 .. Len(queue)
      BY <1>1, <2>2
    <3>2. Append(queue, m)[i] = queue[i]
      BY <3>1
    <3> QED
      BY <3>1, <3>2
  <2> QED
    BY <2>1, <2>2
<1>3. Append(queue, m) # <<>>
  BY <1>1
<1> QED
  BY <1>2, <1>3

\* A frame sent on entering a WR state is no WR_MODE_ON, but in WRS_WR_LINK_ON.
LEMMA SentNoModeOn ==
  ASSUME NEW p, NEW q, NEW s, p.out \in Seq(Message), Sent(q, p, s), s # "WR_LINK_ON",
         \A i \in 1 .. Len(p.out) : p.out[i].type # "WR_MODE_ON"
  PROVE  \A i \in 1 .. Len(q.out) : q.out[i].type # "WR_MODE_ON"
<1>1. CASE q.out = p.out
  BY <1>1
<1>2. ASSUME NEW m \in Message, q.out = Append(p.out, m), m.type = Signal(s)
      PROVE  \A i \in 1 .. Len(q.out) : q.out[i].type # "WR_MODE_ON"
  <2>1. m.type # "WR_MODE_ON"
    BY <1>2 DEF Signal
  <2> QED
    BY <1>2, <2>1, AppendFrames
<1> QED
  BY <1>1, <1>2 DEF Sent

\* A turn in PTP_MASTER outside the link setup: a frame, and perhaps an announce.
LEMMA MasterLink ==
  ASSUME TypedAndDriven, Modes, Lockstep, faults = 0, faults' = 0,
         NEW n \in Node, NEW p, Prepared(n, p), NEW rx \in Frames(n), NEW announcing,
         Master(n, p, rx, announcing)
  PROVE  Lockstep'
<1> DEFINE q == Handle(p, rx)
           a == Send(q, "ANNOUNCE", q.wrModeON)
<1>1. /\ p.portState = "MASTER" /\ ~(p.wrMode = "WR_MASTER" /\ p.wrPortState # "IDLE")
      /\ Finish(n, rx, q) \/ Finish(n, rx, a)
  BY DEF Master
<1>2. Read(n, rx)
  BY <1>1, NoFaultRead
<1>3. p \in Port /\ ModeOK(n, p) /\ Up(p) /\ RoleOK(p)
  BY DEF Prepared
<1>4. n = MasterNode
  BY <1>1, <1>3 DEF ModeOK, Placed, Node
<1>5. p.wrPortState = "IDLE" /\ p.out = <<>>
  BY <1>1, <1>3, <1>4, MasterSilent DEF RoleOK, Driven
<1>6. q \in Port
  BY <1>3, FramesMode, HandleType
<1>7. /\ Up(q)
      /\ Remembers(q, p, rx) \/ (rx \in Message /\ StartsOver(q, p))
  BY <1>2, <1>3, HandleLink DEF Read
<1> HIDE DEF q
<1>8. rx \in Message => chan[MasterNode] # <<>>
  BY <1>2, <1>4 DEF Read
\* What handle() leaves, as far as the move of a master goes.
<1>9. /\ q.wrPortState \in {"IDLE", "M_LOCK"}
      /\ chan[MasterNode] = <<>> => q.wrModeON = p.wrModeON /\ q.out = <<>>
      /\ \A i \in 1 .. Len(q.out) : q.out[i].type # "WR_MODE_ON"
  <2>0. 1 .. Len(p.out) = {} /\ p.out \in Seq(Message)
    BY <1>5
  <2>1. CASE Remembers(q, p, rx)
    BY <1>5, <2>0, <2>1 DEF Remembers, SameLink
  <2>2. CASE rx \in Message /\ StartsOver(q, p)
    <3>1. \A i \in 1 .. Len(q.out) : q.out[i].type # "WR_MODE_ON"
      BY <2>0, <2>2, SentNoModeOn DEF StartsOver
    <3> QED
      BY <1>8, <2>2, <3>1 DEF StartsOver
  <2> QED
    BY <1>7, <2>1, <2>2
<1>10. CASE Finish(n, rx, q)
  <2>1. chan[MasterNode] = <<>> => 1 .. Len(q.out) = {}
    BY <1>9
  <2>2. MasterMove(rx, q)
    BY <1>4, <1>7, <1>9, <2>1, MasterRests
  <2> QED
    BY <1>2, <1>4, <1>6, <1>10, <2>2, MasterFinish
<1>11. CASE Finish(n, rx, a)
  <2> DEFINE m == [type |-> "ANNOUNCE", flag |-> q.wrModeON]
  <2>1. /\ a \in Port
        /\ a.portState = q.portState /\ a.wrPortState = q.wrPortState
        /\ a.wrModeON = q.wrModeON
        /\ a.doRestart = q.doRestart /\ a.linkUP = q.linkUP
        /\ a.out = Append(q.out, m)
    BY <1>6, AnnounceLink
  <2>2. q.out \in Seq(Message)
    BY <1>6, PortFields
  <2>3. m.type = "ANNOUNCE" /\ m.flag = q.wrModeON
    OBVIOUS
  <2> HIDE DEF a, m
  <2>4. \A i \in 1 .. Len(a.out) : a.out[i].type # "WR_MODE_ON"
    BY <1>9, <2>1, <2>2, <2>3, AppendFrames
  <2>5. p.wrModeON /\ chan[MasterNode] = <<>> => \A i \in 1 .. Len(a.out) : SaysOn(a.out[i])
    <3> SUFFICES ASSUME p.wrModeON, chan[MasterNode] = <<>>
                 PROVE  \A i \in 1 .. Len(a.out) : SaysOn(a.out[i])
      OBVIOUS
    <3>1. 1 .. Len(q.out) = {} /\ SaysOn(m)
      <4>1. q.out = <<>> /\ q.wrModeON = p.wrModeON
        BY <1>9
      <4> QED
        BY <2>3, <4>1 DEF SaysOn
    <3> QED
      BY <2>1, <2>2, <3>1, AppendFrames
  <2>6. Up(a)
    BY <1>7, <2>1 DEF Up
  <2>7. MasterMove(rx, a)
    BY <1>4, <1>9, <2>1, <2>4, <2>5, <2>6, MasterRests
  <2> QED
    BY <1>2, <1>4, <1>11, <2>1, <2>7, MasterFinish
<1> QED
  BY <1>1, <1>10, <1>11

\* The WR FSM ends, one turn after WR mode was switched on.
LEMMA WrLinkOnLink ==
  ASSUME TypedAndDriven, Modes, Lockstep,
         NEW n \in Node, NEW p, Prepared(n, p), WrLinkOn(n, p)
  PROVE  Lockstep'
<1> DEFINE w == ToWRState(p, "IDLE", 0)
           s == IF p.wrMode = "WR_SLAVE" THEN "SLAVE" ELSE "MASTER"
           r == ToState(w, s)
           q == EndOfWRState(r, FALSE, 0)
<1>1. /\ p.wrPortState = "WR_LINK_ON" /\ p.portState \in {"UNCALIBRATED", "MASTER"}
      /\ Finish(n, NoFrame, q)
  BY DEF WrLinkOn, InWRState
<1>2. p \in Port /\ ModeOK(n, p) /\ Up(p)
  BY DEF Prepared
<1>3. p.out = <<>>
  BY <1>1 DEF Prepared
<1>4. /\ w \in Port /\ w.doRestart = p.doRestart /\ w.linkUP = p.linkUP
      /\ w.portState = p.portState /\ w.wrPortState = "IDLE" /\ w.out = p.out
      /\ w.wrModeON = p.wrModeON
  <2>1. "IDLE" \in WrState /\ 0 \in Nat
    BY DEF WrState
  <2>2. /\ w \in Port /\ w.doRestart = p.doRestart /\ w.linkUP = p.linkUP
        /\ w.portState = p.portState /\ w.wrPortState = "IDLE"
        /\ w.wrModeON = (p.wrModeON /\ p.wrPortState # "IDLE")
        /\ Sent(w, p, "IDLE")
    BY <1>2, <2>1, ToWRStateLink
  <2>3. w.out = p.out
    BY <2>2 DEF Sent, Signal, Message, SignalId
  <2>4. p.wrModeON \in BOOLEAN
    BY <1>2, PortFields
  <2> QED
    BY <1>1, <2>2, <2>3, <2>4
<1> HIDE DEF w
<1>5. s \in PortState /\ s \notin {"UNCALIBRATED", "FAULTY", "INITIALIZING"}
  BY DEF PortState
<1> HIDE DEF s
<1>6. r \in Port /\ RoleOK(r)
  BY <1>4, <1>5, ToStateType
<1>7. /\ r.wrPortState = "IDLE" /\ r.out = w.out
      /\ r.doRestart = w.doRestart /\ r.linkUP = w.linkUP
      /\ r.portState = s /\ r.wrModeON = w.wrModeON
  BY <1>1, <1>4, <1>5, ToStateLink
<1>8. Up(r)
  BY <1>2, <1>4, <1>5, <1>7 DEF Up
<1> HIDE DEF r
<1>9. q \in Port
  BY <1>6, EndOfWRStateType
<1>10. /\ Up(q) /\ q.msgTmpWrMessageID = "NULL_WR_TLV"
       /\ q.wrPortState = "IDLE" /\ q.wrModeON = p.wrModeON /\ q.out = <<>>
  <2> HIDE DEF q
  <2>1. FALSE \in BOOLEAN /\ 0 \in Nat
    OBVIOUS
  <2>2. /\ Up(q) /\ q.msgTmpWrMessageID = "NULL_WR_TLV"
        /\ q.wrPortState = r.wrPortState /\ q.wrModeON = r.wrModeON /\ q.out = r.out
    BY <1>6, <1>8, <2>1, EndOfWRStateLink DEF q
  <2> QED
    BY <1>3, <1>4, <1>7, <2>2
<1> HIDE DEF q
<1>11. CASE n = SlaveNode
  <2>1. SlaveMove(NoFrame, q)
    BY <1>1, <1>10, <1>11, NoFrameRead, SlaveRests
  <2> QED
    BY <1>1, <1>9, <1>11, <2>1, NoFrameRead, SlaveFinish
<1>12. CASE n = MasterNode
  <2>1. 1 .. Len(q.out) = {}
    BY <1>10
  <2>2. MasterMove(NoFrame, q)
    BY <1>10, <1>12, <2>1, MasterRests
  <2> QED
    BY <1>1, <1>9, <1>12, <2>2, NoFrameRead, MasterFinish
<1> QED
  BY <1>11, <1>12 DEF Node

-----------------------------------------------------------------------------
(* The bodies of the link setup.                                           *)

\* What the body of a WR state of the slave leaves, before its timer is looked at.
SlavePart(rx, r) ==
  /\ Up(r) /\ r.wrPortState # "IDLE"
  /\ \/ r.out = <<>>
     \/ /\ \E m \in Message :
             r.out = <<m>> /\ (m.type = "CALIBRATED" => r.wrPortState = "CALIBRATED")
        /\ r.fresh /\ ~SlaveWaits /\ ~Resting(r)
  /\ Resting(r) => r.fresh /\ chan[MasterNode] = <<>>
  /\ SlaveWaits => r.wrPortState = "CALIBRATED" \/ rx.type = "WR_MODE_ON"
  /\ r.wrModeON => port[SlaveNode].wrModeON \/ rx.type = "WR_MODE_ON"

\* The same of the master.
MasterPart(rx, r) ==
  /\ Up(r) /\ r.wrPortState # "IDLE"
  /\ r.wrPortState = "WR_LINK_ON" => r.fresh
  /\ HasAnswer(r) => Heard(rx)
  /\ \/ \A i \in 1 .. Len(r.out) : r.out[i].type # "WR_MODE_ON"
     \/ r.fresh /\ IsModeOn(r.out) /\ r.wrModeON /\ Heard(rx)
  /\ ~port[MasterNode].wrModeON

\* The end of a turn of the slave's WR FSM, wrTimerExpired() included.
LEMMA SlaveEnd ==
  ASSUME TypedAndDriven, NEW rx, Read(SlaveNode, rx), NEW r \in Port, SlavePart(rx, r),
         NEW expired \in BOOLEAN, expired => Quiet, NEW hw \in Nat
  PROVE  SlaveMove(rx, EndOfWRState(r, expired, hw))
<1> DEFINE q == EndOfWRState(r, expired, hw)
<1>1. /\ Up(q) /\ q.msgTmpWrMessageID = "NULL_WR_TLV"
      /\ \/ /\ q.wrPortState = r.wrPortState /\ q.wrSubstate = r.wrSubstate
            /\ q.wrModeON = r.wrModeON /\ q.out = r.out
         \/ /\ expired /\ ~r.fresh /\ r.wrPortState # "IDLE"
            /\ \/ /\ q.wrPortState = r.wrPortState
                  /\ Sent(q, r, r.wrPortState)
                  /\ r.wrPortState = "RESP_CALIB_REQ" => q.wrSubstate <= 1
                  /\ r.wrPortState # "WR_LINK_ON" => q.wrModeON = r.wrModeON
               \/ q.wrPortState = "IDLE" /\ q.out = r.out /\ ~q.wrModeON
  BY EndOfWRStateLink DEF SlavePart
<1> HIDE DEF q
<1>2. Up(r)
  BY DEF SlavePart
<1>3. CASE q.wrPortState = r.wrPortState /\ q.wrModeON = r.wrModeON /\ q.out = r.out
  <2>1. Resting(q) <=> Resting(r)
    BY <1>1, <1>2, <1>3 DEF Resting, Up
  <2> QED
    BY <1>1, <1>3, <2>1 DEF SlavePart, SlaveMove, q
<1>4. CASE /\ expired /\ ~r.fresh
           /\ q.wrPortState = r.wrPortState
           /\ Sent(q, r, r.wrPortState)
           /\ r.wrPortState # "WR_LINK_ON" => q.wrModeON = r.wrModeON
  <2>1. ~Resting(r) /\ r.out = <<>>
    BY <1>4 DEF SlavePart
  <2>2. ~Resting(q) /\ q.wrModeON = r.wrModeON
    BY <1>1, <1>4, <2>1 DEF Resting, Up
  <2>3. SlaveWaits => r.wrPortState = "CALIBRATED"
    BY <1>4 DEF SlavePart, Read, Quiet, NoFrame
  <2>4. \/ q.out = <<>>
        \/ \E m \in Message : q.out = <<m>> /\ m.type = Signal(r.wrPortState)
    BY <1>4, <2>1 DEF Sent
  <2>5. ASSUME NEW m \in Message, m.type = Signal(r.wrPortState)
        PROVE  m.type # "CALIBRATED" /\ ~SlaveWaits
    BY <2>3, <2>5 DEF Signal, Message, SignalId
  <2> QED
    BY <1>1, <1>4, <2>2, <2>3, <2>4, <2>5 DEF SlavePart, SlaveMove, q
<1>5. CASE expired /\ ~r.fresh /\ q.wrPortState = "IDLE" /\ q.out = r.out /\ ~q.wrModeON
  <2>1. r.out = <<>>
    BY <1>5 DEF SlavePart
  <2> QED
    BY <1>1, <1>5, <2>1 DEF SlaveMove, Quiet, q
<1> QED
  BY <1>1, <1>3, <1>4, <1>5

\* The end of a turn of the master's WR FSM, wrTimerExpired() included.
LEMMA MasterEnd ==
  ASSUME NEW rx, NEW r \in Port, Running(r), MasterPart(rx, r),
         NEW expired \in BOOLEAN, NEW hw \in Nat
  PROVE  MasterMove(rx, EndOfWRState(r, expired, hw))
<1> DEFINE q == EndOfWRState(r, expired, hw)
<1>1. /\ Up(q) /\ q.msgTmpWrMessageID = "NULL_WR_TLV"
      /\ \/ /\ q.wrPortState = r.wrPortState /\ q.wrSubstate = r.wrSubstate
            /\ q.wrModeON = r.wrModeON /\ q.out = r.out
         \/ /\ expired /\ ~r.fresh /\ r.wrPortState # "IDLE"
            /\ \/ /\ q.wrPortState = r.wrPortState
                  /\ Sent(q, r, r.wrPortState)
                  /\ r.wrPortState = "RESP_CALIB_REQ" => q.wrSubstate <= 1
                  /\ r.wrPortState # "WR_LINK_ON" => q.wrModeON = r.wrModeON
               \/ q.wrPortState = "IDLE" /\ q.out = r.out /\ ~q.wrModeON
  BY EndOfWRStateLink DEF MasterPart
<1>2. q.wrSubstate \in 0 .. 8
  BY EndOfWRStateType, PortFields DEF WrSubstate
<1> HIDE DEF q
<1>3. CASE /\ q.wrPortState = r.wrPortState /\ q.wrSubstate = r.wrSubstate
           /\ q.wrModeON = r.wrModeON /\ q.out = r.out
  BY <1>1, <1>3 DEF MasterPart, MasterMove, HasAnswer, q
<1>4. CASE /\ expired /\ ~r.fresh
           /\ q.wrPortState = r.wrPortState
           /\ Sent(q, r, r.wrPortState)
           /\ r.wrPortState = "RESP_CALIB_REQ" => q.wrSubstate <= 1
  <2>1. r.wrPortState # "WR_LINK_ON" /\ \A i \in 1 .. Len(r.out) : r.out[i].type # "WR_MODE_ON"
    BY <1>4 DEF MasterPart
  <2>2. r.out \in Seq(Message)
    BY PortFields
  <2>3. \A i \in 1 .. Len(q.out) : q.out[i].type # "WR_MODE_ON"
    BY <1>4, <2>1, <2>2, SentNoModeOn
  <2>4. ~HasAnswer(q)
    BY <1>2, <1>4 DEF HasAnswer
  <2> QED
    BY <1>1, <2>3, <2>4 DEF MasterPart, MasterMove, q
<1>5. CASE expired /\ ~r.fresh /\ q.wrPortState = "IDLE" /\ q.out = r.out /\ ~q.wrModeON
  <2>1. \A i \in 1 .. Len(q.out) : q.out[i].type # "WR_MODE_ON"
    BY <1>5 DEF MasterPart
  <2> QED
    BY <1>1, <1>5, <2>1 DEF MasterPart, MasterMove, HasAnswer, q
<1> QED
  BY <1>1, <1>3, <1>4, <1>5

\* The end of a body of the link setup.
LEMMA EndLink ==
  ASSUME TypedAndDriven, Modes, Lockstep, SlowTimers,
         NEW n \in Node, NEW rx, Read(n, rx), NEW r \in Port, Running(r),
         n = SlaveNode => SlavePart(rx, r), n = MasterNode => MasterPart(rx, r),
         NEW expired \in BOOLEAN, expired => MayExpire(n), NEW hw \in Nat,
         Finish(n, rx, EndOfWRState(r, expired, hw))
  PROVE  Lockstep'
<1> DEFINE q == EndOfWRState(r, expired, hw)
<1>1. q \in Port
  BY EndOfWRStateType
<1>2. expired => Quiet
  BY ExpiredQuiet DEF Lockstep, Healthy
<1>3. CASE n = SlaveNode
  <2>1. SlaveMove(rx, q)
    BY <1>2, <1>3, SlaveEnd
  <2> HIDE DEF q
  <2> QED
    BY <1>1, <1>3, <2>1, SlaveFinish DEF q
<1>4. CASE n = MasterNode
  <2>1. MasterMove(rx, q)
    BY <1>4, MasterEnd
  <2> HIDE DEF q
  <2> QED
    BY <1>1, <1>4, <2>1, MasterFinish DEF q
<1> QED
  BY <1>3, <1>4 DEF Node

\* A body that waits.
LEMMA SlaveKeeps ==
  ASSUME Lockstep, NEW rx, NEW p, Prepared(SlaveNode, p),
         p.wrPortState \notin {"IDLE", "WR_LINK_ON"},
         NEW r, Up(r), r.wrPortState = p.wrPortState, r.out = p.out,
         p.fresh => r.fresh, r.wrModeON => p.wrModeON
  PROVE  SlavePart(rx, r)
<1>1. ~Resting(r)
  BY DEF Resting, Up
<1>2. SlaveWaits => r.wrPortState = "CALIBRATED" /\ r.out = <<>>
  BY PreparedWaits
<1>3. \/ r.out = <<>>
      \/ r.fresh /\ \E m \in Message : r.out = <<m>> /\ m.type # "CALIBRATED"
  BY DEF Prepared
<1> QED
  BY <1>1, <1>2, <1>3 DEF SlavePart, Prepared

\* A body of the slave that goes on to another WR state, before the last two.
LEMMA SlaveEnters ==
  ASSUME Lockstep, NEW rx, NEW p, Prepared(SlaveNode, p),
         p.wrPortState \notin {"IDLE", "CALIBRATED", "WR_LINK_ON"},
         NEW q \in Port, Up(q), q.wrPortState = p.wrPortState, q.out = p.out,
         q.wrModeON => p.wrModeON,
         NEW s \in WrState, s \notin {"IDLE", "WR_LINK_ON"},
         s = "S_LOCK" \/ p.out = <<>>, NEW hw \in Nat
  PROVE  SlavePart(rx, ToWRState(q, s, hw))
<1> DEFINE r == ToWRState(q, s, hw)
<1>1. /\ r.doRestart = q.doRestart /\ r.linkUP = q.linkUP /\ r.portState = q.portState
      /\ r.fresh = (s # "IDLE")
      /\ r.wrPortState = s \/ (s = "S_LOCK" /\ r.wrPortState = q.wrPortState)
      /\ s # "WR_LINK_ON" => r.wrModeON = (q.wrModeON /\ q.wrPortState # "IDLE")
      /\ Sent(r, q, s)
  BY ToWRStateLink
<1> HIDE DEF r
<1>2. Up(r)
  BY <1>1 DEF Up
<1>3. ~Resting(r) /\ r.wrPortState # "IDLE" /\ r.fresh
  BY <1>1, <1>2 DEF Resting, Up
<1>4. ~SlaveWaits
  BY PreparedWaits
<1>5. \/ r.out = <<>>
      \/ \E m \in Message : r.out = <<m>> /\ m.type # "CALIBRATED"
  <2>1. CASE r.out = q.out
    BY <2>1 DEF Prepared
  <2>2. ASSUME NEW m \in Message, r.out = Append(q.out, m), m.type = Signal(s)
        PROVE  r.out = <<m>> /\ m.type # "CALIBRATED"
    <3>1. s # "S_LOCK"
      BY <2>2 DEF Signal, Message, SignalId
    <3>2. m.type # "CALIBRATED"
      BY <2>2 DEF Signal
    <3>3. q.out = <<>>
      BY <3>1
    <3> QED
      BY <2>2, <3>2, <3>3
  <2> QED
    BY <1>1, <2>1, <2>2 DEF Sent
<1>6. r.wrModeON => port[SlaveNode].wrModeON
  BY <1>1 DEF Prepared
<1>7. SlavePart(rx, r)
  BY <1>2, <1>3, <1>4, <1>5, <1>6 DEF SlavePart
<1> QED
  BY <1>7 DEF r

\* A body of the master that waits, and one that goes on.
LEMMA MasterKeeps ==
  ASSUME NEW rx, NEW p, Prepared(MasterNode, p), Running(p), p.wrPortState # "WR_LINK_ON",
         NEW r, Up(r), r.wrPortState # "IDLE", r.wrPortState # "WR_LINK_ON",
         HasAnswer(r) => HasAnswer(p) \/ Heard(rx),
         \A i \in 1 .. Len(r.out) : r.out[i].type # "WR_MODE_ON"
  PROVE  MasterPart(rx, r)
<1>1. ~p.wrModeON
  BY RunningNotOn DEF Prepared, Node
<1>2. ~port[MasterNode].wrModeON
  BY <1>1 DEF Prepared
<1>3. HasAnswer(p) => HasAnswer(port[MasterNode])
  BY NodesAssumption DEF Prepared, HasAnswer
<1> QED
  BY <1>2, <1>3 DEF MasterPart, Heard

\* A master enters a WR state other than WRS_WR_LINK_ON.
LEMMA MasterEnters ==
  ASSUME NEW rx, NEW p, Prepared(MasterNode, p), Running(p), p.wrPortState # "WR_LINK_ON",
         NEW q \in Port, Up(q),
         \A i \in 1 .. Len(q.out) : q.out[i].type # "WR_MODE_ON",
         NEW s \in WrState, s \notin {"IDLE", "S_LOCK", "WR_LINK_ON"}, NEW hw \in Nat
  PROVE  MasterPart(rx, ToWRState(q, s, hw))
<1> DEFINE r == ToWRState(q, s, hw)
<1>1. /\ r.doRestart = q.doRestart /\ r.linkUP = q.linkUP /\ r.portState = q.portState
      /\ r.wrPortState = s \/ (s = "S_LOCK" /\ r.wrPortState = q.wrPortState)
      /\ s = "RESP_CALIB_REQ" => r.wrSubstate <= 1
      /\ Sent(r, q, s) /\ r \in Port
  BY ToWRStateLink
<1> HIDE DEF r
<1>2. q.out \in Seq(Message) /\ r.wrSubstate \in 0 .. 8
  BY <1>1, PortFields DEF WrSubstate
<1>3. \A i \in 1 .. Len(r.out) : r.out[i].type # "WR_MODE_ON"
  BY <1>1, <1>2, SentNoModeOn
<1>4. Up(r) /\ ~HasAnswer(r)
  BY <1>1, <1>2 DEF Up, HasAnswer
<1>5. MasterPart(rx, r)
  BY <1>1, <1>3, <1>4, MasterKeeps
<1> QED
  BY <1>5 DEF r

\* A master that has heard SLAVE_PRESENT in the body of another WR state.
LEMMA MasterOver ==
  ASSUME NEW rx, NEW p, Prepared(MasterNode, p), Running(p), p.wrPortState # "WR_LINK_ON",
         NEW q, Up(q), StartsOver(q, p)
  PROVE  MasterPart(rx, q)
<1>1. p.out = <<>>
  BY MasterSilent
<1>2. p.out \in Seq(Message) /\ 1 .. Len(p.out) = {}
  BY <1>1
<1>3. \A i \in 1 .. Len(q.out) : q.out[i].type # "WR_MODE_ON"
  BY <1>2, SentNoModeOn DEF StartsOver
<1> QED
  BY <1>3, MasterKeeps DEF StartsOver, HasAnswer


\* handle() in the body of a WR state.
LEMMA HandlesLink ==
  ASSUME TypedAndDriven, Modes, Lockstep, NEW n \in Node, NEW p, Prepared(n, p),
         Running(p), p.wrPortState # "WR_LINK_ON", NEW rx \in Frames(n), Read(n, rx)
  PROVE  LET q == Handle(p, rx)
         IN  /\ q \in Port /\ Running(q) /\ Up(q)
             /\ q.wrModeON => p.wrModeON
             /\ n = SlaveNode => Remembers(q, p, rx) /\ SlavePart(rx, q)
             /\ n = MasterNode => /\ MasterPart(rx, q)
                                  /\ \/ Remembers(q, p, rx)
                                     \/ q.msgTmpWrMessageID = "SLAVE_PRESENT"
                                  /\ \A i \in 1 .. Len(q.out) : q.out[i].type # "WR_MODE_ON"
<1> DEFINE q == Handle(p, rx)
<1>1. p \in Port /\ ModeOK(n, p) /\ Up(p) /\ p.wrPortState # "IDLE"
  BY DEF Prepared, Running
<1>2. q \in Port /\ Running(q)
  BY <1>1, HandleRunning
<1>3. /\ Up(q)
      /\ \/ Remembers(q, p, rx)
         \/ n = MasterNode /\ StartsOver(q, p)
  BY <1>1, HandleLink DEF Read
<1> HIDE DEF q
<1>4. q.wrModeON => p.wrModeON
  BY <1>3 DEF Remembers, SameLink, StartsOver
<1>5. CASE n = SlaveNode
  <2>1. Remembers(q, p, rx)
    BY <1>3, <1>5, NodesAssumption
  <2>2. /\ q.wrPortState = p.wrPortState /\ q.out = p.out /\ q.wrModeON = p.wrModeON
        /\ q.fresh = p.fresh
    BY <2>1 DEF Remembers, SameLink
  <2>3. SlavePart(rx, q)
    BY <1>1, <1>3, <1>5, <2>2, SlaveKeeps
  <2> QED
    BY <1>2, <1>3, <1>4, <1>5, <2>1, <2>3, NodesAssumption DEF q
<1>6. CASE n = MasterNode
  <2>1. CASE Remembers(q, p, rx)
    <3>1. /\ q.wrPortState = p.wrPortState /\ q.wrSubstate = p.wrSubstate
          /\ q.out = p.out
      BY <2>1 DEF Remembers, SameLink
    <3>2. 1 .. Len(q.out) = {}
      <4>1. q.out = <<>>
        BY <1>6, <3>1, MasterSilent
      <4> QED
        BY <4>1
    <3>3. HasAnswer(q) => HasAnswer(p)
      BY <3>1 DEF HasAnswer
    <3>4. MasterPart(rx, q)
      BY <1>1, <1>3, <1>6, <3>1, <3>2, <3>3, MasterKeeps
    <3> QED
      BY <1>2, <1>3, <1>4, <1>6, <2>1, <3>2, <3>4, NodesAssumption DEF q
  <2>2. CASE StartsOver(q, p)
    <3>1. MasterPart(rx, q)
      BY <1>3, <1>6, <2>2, MasterOver
    <3>2. p.out \in Seq(Message) /\ \A i \in 1 .. Len(p.out) : p.out[i].type # "WR_MODE_ON"
      <4>1. p.out = <<>>
        BY <1>6, MasterSilent
      <4> QED
        BY <4>1
    <3>3. \A i \in 1 .. Len(q.out) : q.out[i].type # "WR_MODE_ON"
      BY <2>2, <3>2, SentNoModeOn DEF StartsOver
    <3> QED
      BY <1>2, <1>3, <1>4, <1>6, <2>2, <3>1, <3>3, NodesAssumption DEF q, StartsOver
  <2> QED
    BY <1>3, <2>1, <2>2
<1> QED
  BY <1>5, <1>6 DEF Node

\* WRS_PRESENT.
LEMMA WrPresentLink ==
  ASSUME TypedAndDriven, Modes, Lockstep, SlowTimers, faults = 0, faults' = 0,
         NEW n \in Node, NEW p, Prepared(n, p), NEW rx \in Frames(n),
         NEW expired \in BOOLEAN, expired => MayExpire(n),
         NEW hw \in Nat, NEW hwAgain \in Nat,
         WrPresent(n, p, rx, expired, hw, hwAgain)
  PROVE  Lockstep'
<1> DEFINE q == Handle(p, rx)
           w == ToWRState(q, "S_LOCK", hw)
<1>1. Running(p) /\ p.wrPortState = "PRESENT" /\ p.portState # "INITIALIZING"
  BY InWRStateRunning DEF WrPresent, InWRState, Prepared
<1>2. n = SlaveNode /\ n # MasterNode
  BY <1>1, NodesAssumption DEF Prepared, ModeOK, Placed, Node
<1>3. PICK r : /\ r = q \/ r = w
               /\ Finish(n, rx, EndOfWRState(r, expired, hwAgain))
  BY DEF WrPresent
<1>4. Read(n, rx)
  BY <1>3, NoFaultRead
<1>5. /\ q \in Port /\ Running(q) /\ Up(q) /\ (q.wrModeON => p.wrModeON)
      /\ Remembers(q, p, rx) /\ SlavePart(rx, q)
  BY <1>1, <1>2, <1>4, HandlesLink
<1> HIDE DEF q, w
<1>6. q.wrPortState = p.wrPortState /\ q.out = p.out
  BY <1>5 DEF Remembers, SameLink
<1>7. "S_LOCK" \in WrState \ {"IDLE"}
  BY DEF WrState
<1>8. w \in Port /\ Running(w)
  BY <1>5, <1>7, ToWRStateRunning DEF w
<1>9. SlavePart(rx, w)
  BY <1>1, <1>2, <1>5, <1>6, <1>7, SlaveEnters DEF w
<1> QED
  BY <1>2, <1>3, <1>4, <1>5, <1>8, <1>9, EndLink

\* WRS_LOCKED.
LEMMA WrLockedLink ==
  ASSUME TypedAndDriven, Modes, Lockstep, SlowTimers, faults = 0, faults' = 0,
         NEW n \in Node, NEW p, Prepared(n, p), NEW rx \in Frames(n),
         NEW expired \in BOOLEAN, expired => MayExpire(n),
         NEW hw \in Nat, NEW hwAgain \in Nat,
         WrLocked(n, p, rx, expired, hw, hwAgain)
  PROVE  Lockstep'
<1> DEFINE q == Handle(p, rx)
           w == ToWRState(q, "RESP_CALIB_REQ", hw)
<1>1. Running(p) /\ p.wrPortState = "LOCKED" /\ p.portState # "INITIALIZING"
  BY InWRStateRunning DEF WrLocked, InWRState, Prepared
<1>2. n = SlaveNode /\ n # MasterNode
  BY <1>1, NodesAssumption DEF Prepared, ModeOK, Placed, Node
<1>3. PICK r : /\ r = q \/ r = w
               /\ Finish(n, rx, EndOfWRState(r, expired, hwAgain))
  BY DEF WrLocked
<1>4. Read(n, rx)
  BY <1>3, NoFaultRead
<1>5. /\ q \in Port /\ Running(q) /\ Up(q) /\ (q.wrModeON => p.wrModeON)
      /\ Remembers(q, p, rx) /\ SlavePart(rx, q)
  BY <1>1, <1>2, <1>4, HandlesLink
<1> HIDE DEF q, w
<1>6. q.wrPortState = p.wrPortState /\ q.out = p.out /\ p.out = <<>>
  BY <1>1, <1>5 DEF Remembers, SameLink, Prepared
<1>7. "RESP_CALIB_REQ" \in WrState \ {"IDLE"}
  BY DEF WrState
<1>8. w \in Port /\ Running(w)
  BY <1>5, <1>7, ToWRStateRunning DEF w
<1>9. SlavePart(rx, w)
  BY <1>1, <1>2, <1>5, <1>6, <1>7, SlaveEnters DEF w
<1> QED
  BY <1>2, <1>3, <1>4, <1>5, <1>8, <1>9, EndLink

\* WRS_M_LOCK.
LEMMA WrMLockLink ==
  ASSUME TypedAndDriven, Modes, Lockstep, SlowTimers, faults = 0, faults' = 0,
         NEW n \in Node, NEW p, Prepared(n, p), NEW rx \in Frames(n),
         NEW expired \in BOOLEAN, expired => MayExpire(n),
         NEW hw \in Nat, NEW hwAgain \in Nat,
         WrMLock(n, p, rx, expired, hw, hwAgain)
  PROVE  Lockstep'
<1> DEFINE q == Handle(p, rx)
           w == ToWRState(q, "CALIBRATION", hw)
<1>1. Running(p) /\ p.wrPortState = "M_LOCK"
  BY InWRStateRunning DEF WrMLock, InWRState, Prepared
<1>2. n = MasterNode /\ n # SlaveNode
  BY <1>1, NodesAssumption DEF Prepared, ModeOK, Placed, Node
<1>3. PICK r : /\ r = q \/ r = w
               /\ Finish(n, rx, EndOfWRState(r, expired, hwAgain))
  BY DEF WrMLock
<1>4. Read(n, rx)
  BY <1>3, NoFaultRead
<1>5. /\ q \in Port /\ Running(q) /\ Up(q) /\ MasterPart(rx, q)
      /\ \A i \in 1 .. Len(q.out) : q.out[i].type # "WR_MODE_ON"
  BY <1>1, <1>2, <1>4, HandlesLink
<1> HIDE DEF q, w
<1>6. "CALIBRATION" \in WrState \ {"IDLE"}
  BY DEF WrState
<1>7. w \in Port /\ Running(w)
  BY <1>5, <1>6, ToWRStateRunning DEF w
<1>8. MasterPart(rx, w)
  BY <1>1, <1>2, <1>5, <1>6, MasterEnters DEF w
<1> QED
  BY <1>2, <1>3, <1>4, <1>5, <1>7, <1>8, EndLink

\* WRS_S_LOCK.
LEMMA WrSLockLink ==
  ASSUME TypedAndDriven, Modes, Lockstep, SlowTimers,
         NEW n \in Node, NEW p, Prepared(n, p),
         NEW expired \in BOOLEAN, expired => MayExpire(n),
         NEW hw \in Nat, NEW hwAgain \in Nat,
         WrSLock(n, p, expired, hw, hwAgain)
  PROVE  Lockstep'
<1> DEFINE done == p.wrSubstate + hw
           d == [p EXCEPT !.wrSubstate = done]
           w == ToWRState(p, "LOCKED", 0)
<1>1. Running(p) /\ p.wrPortState = "S_LOCK" /\ p.portState # "INITIALIZING"
  BY InWRStateRunning DEF WrSLock, InWRState, Prepared
<1>2. n = SlaveNode /\ n # MasterNode
  BY <1>1, NodesAssumption DEF Prepared, ModeOK, Placed, Node
<1>3. p \in Port /\ Up(p) /\ p.out = <<>> /\ p.wrSubstate \in WrSubstate
  BY <1>1, PortFields DEF Prepared
<1>4. PICK r : /\ r = p \/ r = w \/ (done < 3 /\ r = d)
               /\ Finish(n, NoFrame, EndOfWRState(r, expired, hwAgain))
  <2>1. done < 3 \/ done >= 3
    BY <1>3 DEF WrSubstate
  <2> QED
    BY <2>1 DEF WrSLock
<1>5. done < 3 => done \in WrSubstate
  BY <1>3 DEF WrSubstate
<1>6. /\ SameMachine(d, p)
      /\ d.wrModeON = p.wrModeON /\ d.out = p.out /\ d.fresh = p.fresh
      /\ d.doRestart = p.doRestart /\ d.linkUP = p.linkUP
      /\ d.portState = p.portState
  BY <1>3 DEF SameMachine, SameRole, Port
<1> HIDE DEF done, d, w
<1>7. done < 3 => d \in Port
  BY <1>3, <1>5, StateUpdate DEF d
<1>8. Running(d) /\ Up(d) /\ d.wrPortState = p.wrPortState
  BY <1>1, <1>3, <1>6, SameMachineRole DEF SameMachine, Up
<1>9. SlavePart(NoFrame, d)
  BY <1>1, <1>2, <1>6, <1>8, SlaveKeeps
<1>10. SlavePart(NoFrame, p)
  BY <1>1, <1>2, <1>3, SlaveKeeps
<1>11. "LOCKED" \in WrState \ {"IDLE"} /\ 0 \in Nat
  BY DEF WrState
<1>12. w \in Port /\ Running(w)
  BY <1>1, <1>3, <1>11, ToWRStateRunning DEF w
<1>13. SlavePart(NoFrame, w)
  BY <1>1, <1>2, <1>3, <1>11, SlaveEnters DEF w
<1>14. Read(n, NoFrame)
  BY NoFrameRead
<1>15. r \in Port /\ Running(r) /\ SlavePart(NoFrame, r)
  BY <1>1, <1>3, <1>4, <1>7, <1>8, <1>9, <1>10, <1>12, <1>13
<1> QED
  BY <1>2, <1>4, <1>14, <1>15, EndLink

\* What Calibrate() leaves alone.
LEMMA CalibrateLink ==
  ASSUME NEW p \in Port, NEW hw \in Nat
  PROVE  LET q == Calibrate(p, hw)
         IN  /\ q \in Port /\ SameMachine(q, p) /\ q.wrSubstate \in 0 .. 8
             /\ q.wrModeON = p.wrModeON /\ q.out = p.out /\ q.fresh = p.fresh
             /\ q.doRestart = p.doRestart /\ q.linkUP = p.linkUP
             /\ q.portState = p.portState
<1> DEFINE q == Calibrate(p, hw)
<1>1. q \in Port /\ SameMachine(q, p)
  BY CalibrateType
<1>2. q.wrSubstate \in 0 .. 8
  BY <1>1, PortFields DEF WrSubstate
<1>3. /\ q.wrModeON = p.wrModeON /\ q.out = p.out /\ q.fresh = p.fresh
      /\ q.doRestart = p.doRestart /\ q.linkUP = p.linkUP
      /\ q.portState = p.portState
  BY DEF Calibrate, Port
<1> QED
  BY <1>1, <1>2, <1>3

\* WRS_CALIBRATION.  The slave's CALIBRATED is the last frame that it sends.
LEMMA WrCalibrationLink ==
  ASSUME TypedAndDriven, Modes, Lockstep, SlowTimers,
         NEW n \in Node, NEW p, Prepared(n, p),
         NEW expired \in BOOLEAN, expired => MayExpire(n),
         NEW hw \in Nat, NEW hwAgain \in Nat,
         WrCalibration(n, p, expired, hw, hwAgain)
  PROVE  Lockstep'
<1> DEFINE q == Calibrate(p, hw)
           m == [type |-> "CALIBRATED", flag |-> FALSE]
           s == Send(q, "CALIBRATED", FALSE)
           w == ToWRState(s, "CALIBRATED", 0)
           c == [w EXCEPT !.calibrated = TRUE]
<1>1. Running(p) /\ p.wrPortState = "CALIBRATION"
  BY InWRStateRunning DEF WrCalibration, InWRState, Prepared
<1>2. p \in Port /\ Up(p) /\ p.out = <<>>
  BY <1>1 DEF Prepared
<1>3. /\ q \in Port /\ SameMachine(q, p) /\ q.wrSubstate \in 0 .. 8
      /\ q.wrModeON = p.wrModeON /\ q.out = p.out /\ q.fresh = p.fresh
      /\ q.doRestart = p.doRestart /\ q.linkUP = p.linkUP
      /\ q.portState = p.portState
  BY <1>2, CalibrateLink
<1>4. PICK r : /\ r = q \/ r = c
               /\ Finish(n, NoFrame, EndOfWRState(r, expired, hwAgain))
  BY DEF WrCalibration
<1> HIDE DEF q
<1>5. Running(q) /\ Up(q) /\ q.wrPortState = "CALIBRATION"
  BY <1>1, <1>2, <1>3, SameMachineRole DEF SameMachine, Up
<1>6. /\ s \in Port /\ SameMachine(s, q)
      /\ s.wrModeON = q.wrModeON /\ s.out = <<m>>
      /\ s.doRestart = q.doRestart /\ s.linkUP = q.linkUP
      /\ s.portState = q.portState
  <2>0. s \in Port
    BY <1>3, SendType DEF SignalId
  <2>1. SameMachine(s, q)
    BY <1>3 DEF Send, SameMachine, SameRole, Port
  <2>2. s.out = Append(q.out, m)
    BY <1>3 DEF Send, Port
  <2>3. /\ s.wrModeON = q.wrModeON
        /\ s.doRestart = q.doRestart /\ s.linkUP = q.linkUP
        /\ s.portState = q.portState
    BY <1>3 DEF Send, Port
  <2>4. Append(q.out, m) = <<m>>
    BY <1>2, <1>3
  <2> QED
    BY <2>0, <2>1, <2>2, <2>3, <2>4
<1>7. m \in Message /\ m.type = "CALIBRATED"
  BY DEF Message, SignalId
<1> HIDE DEF m, s
<1>8. Running(s) /\ s.wrPortState = "CALIBRATION"
  BY <1>5, <1>6, SameMachineRole DEF SameMachine
<1>9. "CALIBRATED" \in WrState \ {"IDLE"} /\ 0 \in Nat
  BY DEF WrState
<1>10. w \in Port /\ Running(w)
  BY <1>6, <1>8, <1>9, ToWRStateRunning
<1>11. /\ w.doRestart = s.doRestart /\ w.linkUP = s.linkUP /\ w.portState = s.portState
       /\ w.fresh /\ w.wrPortState = "CALIBRATED"
       /\ w.wrModeON => s.wrModeON
       /\ w.out = s.out
  <2>1. /\ w.doRestart = s.doRestart /\ w.linkUP = s.linkUP /\ w.portState = s.portState
        /\ w.fresh = ("CALIBRATED" # "IDLE")
        /\ w.wrPortState = "CALIBRATED" \/ ("CALIBRATED" = "S_LOCK" /\ w.wrPortState = s.wrPortState)
        /\ "CALIBRATED" # "WR_LINK_ON" => w.wrModeON = (s.wrModeON /\ s.wrPortState # "IDLE")
        /\ Sent(w, s, "CALIBRATED")
    BY <1>6, <1>9, ToWRStateLink
  <2>2. w.out = s.out
    BY <2>1 DEF Sent, Signal, Message, SignalId
  <2> QED
    BY <2>1, <2>2
<1> HIDE DEF w
<1>12. /\ c \in Port /\ SameMachine(c, w)
       /\ c.doRestart = w.doRestart /\ c.linkUP = w.linkUP /\ c.portState = w.portState
       /\ c.fresh = w.fresh /\ c.wrModeON = w.wrModeON /\ c.out = w.out
  <2>1. c \in Port
    BY <1>10, BooleanUpdate
  <2>2. /\ SameMachine(c, w)
        /\ c.doRestart = w.doRestart /\ c.linkUP = w.linkUP /\ c.portState = w.portState
        /\ c.fresh = w.fresh /\ c.wrModeON = w.wrModeON /\ c.out = w.out
    BY <1>10 DEF SameMachine, SameRole, Port
  <2> QED
    BY <2>1, <2>2
<1> HIDE DEF c
<1>13. Running(c) /\ Up(c) /\ c.wrPortState = "CALIBRATED" /\ c.fresh /\ c.out = <<m>>
  BY <1>5, <1>6, <1>10, <1>11, <1>12, SameMachineRole DEF SameMachine, Up
<1>14. c.wrModeON => p.wrModeON
  BY <1>3, <1>6, <1>11, <1>12
<1>15. CASE n = SlaveNode
  <2>1. ~SlaveWaits
    BY <1>1, <1>15, PreparedWaits
  <2>2. SlavePart(NoFrame, c)
    BY <1>7, <1>13, <1>14, <1>15, <2>1 DEF SlavePart, Resting, Up, Prepared
  <2>3. SlavePart(NoFrame, q)
    BY <1>1, <1>3, <1>5, <1>15, SlaveKeeps
  <2>4. r \in Port /\ Running(r) /\ SlavePart(NoFrame, r)
    BY <1>3, <1>4, <1>5, <1>12, <1>13, <2>2, <2>3
  <2> QED
    BY <1>4, <1>15, <2>4, NodesAssumption, NoFrameRead, EndLink
<1>16. CASE n = MasterNode
  <2>1. ~HasAnswer(c) /\ ~HasAnswer(q)
    BY <1>5, <1>13 DEF HasAnswer
  <2>2. \A i \in 1 .. Len(c.out) : c.out[i].type # "WR_MODE_ON"
    BY <1>7, <1>13
  <2>3. 1 .. Len(q.out) = {}
    BY <1>2, <1>3
  <2>4. MasterPart(NoFrame, c)
    BY <1>1, <1>13, <1>16, <2>1, <2>2, MasterKeeps
  <2>5. MasterPart(NoFrame, q)
    BY <1>1, <1>5, <1>16, <2>1, <2>3, MasterKeeps
  <2>6. r \in Port /\ Running(r) /\ MasterPart(NoFrame, r)
    BY <1>3, <1>4, <1>5, <1>12, <1>13, <2>4, <2>5
  <2> QED
    BY <1>4, <1>16, <2>6, NodesAssumption, NoFrameRead, EndLink
<1> QED
  BY <1>15, <1>16 DEF Node

\* toWRState(), entering WRS_WR_LINK_ON.
LEMMA ToLinkOnLink ==
  ASSUME NEW q \in Port, NEW hw \in Nat
  PROVE  LET r == ToWRState(q, "WR_LINK_ON", hw)
         IN  /\ r.doRestart = q.doRestart /\ r.linkUP = q.linkUP /\ r.portState = q.portState
             /\ r.fresh /\ r.wrPortState = "WR_LINK_ON" /\ r.wrModeON
             /\ q.wrMode # "WR_MASTER" => r.out = q.out
             /\ q.wrMode = "WR_MASTER" =>
                  r.out = Append(q.out, [type |-> "WR_MODE_ON", flag |-> FALSE])
<1> DEFINE r == ToWRState(q, "WR_LINK_ON", hw)
<1>1. "WR_LINK_ON" \in WrState
  BY DEF WrState
<1>2. Moved(r, q, "WR_LINK_ON")
  BY <1>1, ToWRStateMoves
<1> HIDE DEF r
<1>3. /\ r.doRestart = q.doRestart /\ r.linkUP = q.linkUP /\ r.portState = q.portState
      /\ r.fresh /\ r.wrPortState = "WR_LINK_ON"
  BY <1>2 DEF Moved
<1>4. /\ r.wrModeON
      /\ q.wrMode # "WR_MASTER" => r.out = q.out
      /\ q.wrMode = "WR_MASTER" =>
           r.out = Append(q.out, [type |-> "WR_MODE_ON", flag |-> FALSE])
  BY <1>2 DEF Moved
<1> QED
  BY <1>3, <1>4 DEF r

\* A slave that hears WR_MODE_ON turns WR mode on.
LEMMA SlaveTurnsOn ==
  ASSUME NEW rx, rx.type = "WR_MODE_ON", chan[MasterNode] = <<>>,
         NEW q \in Port, Up(q), q.wrMode = "WR_SLAVE", q.out = <<>>, NEW hw \in Nat
  PROVE  SlavePart(rx, ToWRState(q, "WR_LINK_ON", hw))
<1> DEFINE r == ToWRState(q, "WR_LINK_ON", hw)
<1>1. "WR_LINK_ON" \in WrState
  BY DEF WrState
<1> HIDE DEF r
<1>2. /\ r.doRestart = q.doRestart /\ r.linkUP = q.linkUP /\ r.portState = q.portState
      /\ r.fresh /\ r.wrPortState = "WR_LINK_ON"
      /\ q.wrMode # "WR_MASTER" => r.out = q.out
  BY <1>1, ToLinkOnLink DEF r
<1>3. Up(r)
  BY <1>2 DEF Up
<1>4. SlavePart(rx, r)
  BY <1>2, <1>3 DEF SlavePart
<1> QED
  BY <1>4 DEF r

\* WRS_CALIBRATED: WR_MODE_ON finds a slave that waits for it.
LEMMA WrCalibratedLink ==
  ASSUME TypedAndDriven, Modes, Lockstep, SlowTimers, faults = 0, faults' = 0,
         NEW n \in Node, NEW p, Prepared(n, p), NEW rx \in Frames(n),
         NEW expired \in BOOLEAN, expired => MayExpire(n),
         NEW hw \in Nat, NEW hwAgain \in Nat,
         WrCalibrated(n, p, rx, expired, hw, hwAgain)
  PROVE  Lockstep'
<1> DEFINE q == Handle(p, rx)
           w == ToWRState(q, "RESP_CALIB_REQ", hw)
           o == ToWRState(q, "WR_LINK_ON", 0)
           asked == q.msgTmpWrMessageID = "CALIBRATE" /\ q.wrMode = "WR_MASTER"
           on == q.msgTmpWrMessageID = "WR_MODE_ON" /\ q.wrMode = "WR_SLAVE"
<1>1. Running(p) /\ p.wrPortState = "CALIBRATED"
  BY InWRStateRunning DEF WrCalibrated, InWRState, Prepared
<1>2. PICK r : /\ r = q \/ (r = w /\ asked) \/ (r = o /\ on)
               /\ Finish(n, rx, EndOfWRState(r, expired, hwAgain))
  BY DEF WrCalibrated
<1>3. Read(n, rx)
  BY <1>2, NoFaultRead
<1>4. /\ q \in Port /\ Running(q) /\ Up(q) /\ (q.wrModeON => p.wrModeON)
      /\ n = SlaveNode => Remembers(q, p, rx) /\ SlavePart(rx, q)
      /\ n = MasterNode => /\ MasterPart(rx, q)
                           /\ \A i \in 1 .. Len(q.out) : q.out[i].type # "WR_MODE_ON"
  BY <1>1, <1>3, HandlesLink
<1>5. ModeOK(n, q)
  BY <1>1, HandleRunning DEF Prepared
<1>6. "RESP_CALIB_REQ" \in WrState \ {"IDLE"} /\ "WR_LINK_ON" \in WrState \ {"IDLE"} /\ 0 \in Nat
  BY DEF WrState
<1> HIDE DEF q
<1>7. (asked => n = MasterNode) /\ (on => n = SlaveNode)
  BY <1>4, <1>5, RunningPlace
<1> HIDE DEF w, o
<1>8. w \in Port /\ Running(w) /\ o \in Port /\ Running(o)
  BY <1>4, <1>6, ToWRStateRunning DEF w, o
<1>9. n = MasterNode => MasterPart(rx, w)
  BY <1>1, <1>4, <1>6, MasterEnters DEF w
<1>10. ASSUME on, n = SlaveNode
       PROVE  SlavePart(rx, o)
  <2>1. Remembers(q, p, rx)
    BY <1>4, <1>10
  <2>2. rx.type = "WR_MODE_ON"
    BY <1>10, <2>1 DEF Remembers, Prepared, Lockstep, Forgotten
  <2>3. chan[MasterNode] = <<>>
    BY <1>3, <1>10, <2>2, ModeOnRead
  <2>4. q.out = <<>>
    BY <1>1, <1>10, <2>1 DEF Remembers, SameLink, Prepared
  <2> QED
    BY <1>4, <1>6, <1>10, <2>2, <2>3, <2>4, SlaveTurnsOn DEF o
<1>11. CASE n = SlaveNode
  <2>1. r \in Port /\ Running(r) /\ SlavePart(rx, r)
    BY <1>2, <1>4, <1>7, <1>8, <1>10, <1>11, NodesAssumption
  <2> QED
    BY <1>2, <1>3, <1>11, <2>1, NodesAssumption, EndLink
<1>12. CASE n = MasterNode
  <2>1. r \in Port /\ Running(r) /\ MasterPart(rx, r)
    BY <1>2, <1>4, <1>7, <1>8, <1>9, <1>12, NodesAssumption
  <2> QED
    BY <1>2, <1>3, <1>12, <2>1, NodesAssumption, EndLink
<1> QED
  BY <1>11, <1>12 DEF Node

\* A master that has heard the slave's CALIBRATED turns WR mode on, and tells it.
LEMMA MasterTurnsOn ==
  ASSUME NEW rx, NEW p, Prepared(MasterNode, p), Running(p), p.wrPortState # "WR_LINK_ON",
         NEW q \in Port, Up(q), q.wrMode = "WR_MASTER", q.out = <<>>, Heard(rx), NEW hw \in Nat
  PROVE  MasterPart(rx, ToWRState(q, "WR_LINK_ON", hw))
<1> DEFINE r == ToWRState(q, "WR_LINK_ON", hw)
<1>1. "WR_LINK_ON" \in WrState
  BY DEF WrState
<1> HIDE DEF r
<1>2. /\ r.doRestart = q.doRestart /\ r.linkUP = q.linkUP /\ r.portState = q.portState
      /\ r.fresh /\ r.wrPortState = "WR_LINK_ON" /\ r.wrModeON
      /\ q.wrMode = "WR_MASTER" =>
           r.out = Append(q.out, [type |-> "WR_MODE_ON", flag |-> FALSE])
  BY <1>1, ToLinkOnLink DEF r
<1>3. ~p.wrModeON
  BY RunningNotOn DEF Prepared, Node
<1>4. ~port[MasterNode].wrModeON
  BY <1>3 DEF Prepared
<1>5. IsModeOn(r.out)
  BY <1>2 DEF IsModeOn
<1>6. Up(r)
  BY <1>2 DEF Up
<1>7. MasterPart(rx, r)
  BY <1>2, <1>4, <1>5, <1>6 DEF MasterPart, HasAnswer
<1> QED
  BY <1>7 DEF r

\* The last substates of WRS_RESP_CALIB_REQ.
LEMMA AfterCalibratedLink ==
  ASSUME Lockstep, NEW n \in Node, NEW p, Prepared(n, p), Running(p),
         p.wrPortState = "RESP_CALIB_REQ", NEW rx,
         NEW t \in Port, Running(t), ModeOK(n, t), Up(t), t.wrPortState = "RESP_CALIB_REQ",
         t.out = <<>>, p.fresh => t.fresh, t.wrModeON => p.wrModeON,
         n = MasterNode /\ HasAnswer(t) => Heard(rx), NEW hw \in Nat
  PROVE  LET r == AfterCalibrated(t, hw)
         IN  /\ r \in Port /\ Running(r)
             /\ n = SlaveNode => SlavePart(rx, r)
             /\ n = MasterNode => MasterPart(rx, r)
<1> DEFINE next == IF t.wrMode = "WR_MASTER" THEN "WR_LINK_ON" ELSE "CALIBRATION"
           o == [t EXCEPT !.calibrationPattern = FALSE]
           r == AfterCalibrated(t, hw)
<1>1. \/ /\ t.wrSubstate \in {2, 3}
         /\ \/ r = ToWRState(t, next, hw)
            \/ r = ToWRState(o, next, hw - 1) /\ hw - 1 \in Nat
      \/ r = t
  BY DEF AfterCalibrated
<1>2. next = IF n = MasterNode THEN "WR_LINK_ON" ELSE "CALIBRATION"
  BY RunningPlace, NodesAssumption DEF Node
<1>3. r \in Port /\ Running(r)
  BY AfterCalibratedType
<1>4. /\ o \in Port
      /\ o.wrPortState = t.wrPortState /\ o.wrMode = t.wrMode /\ o.wrModeON = t.wrModeON
      /\ o.out = t.out /\ o.doRestart = t.doRestart /\ o.linkUP = t.linkUP
      /\ o.portState = t.portState
  <2>1. o \in Port
    BY BooleanUpdate
  <2>2. /\ o.wrPortState = t.wrPortState /\ o.wrMode = t.wrMode /\ o.wrModeON = t.wrModeON
        /\ o.out = t.out /\ o.doRestart = t.doRestart /\ o.linkUP = t.linkUP
        /\ o.portState = t.portState
    BY DEF Port
  <2> QED
    BY <2>1, <2>2
<1> HIDE DEF next, o, r
<1>5. Up(o)
  BY <1>4 DEF Up
<1>6. p.out = <<>>
  BY DEF Prepared
<1>7. CASE n = SlaveNode
  <2>1. next = "CALIBRATION" /\ "CALIBRATION" \in WrState
    BY <1>2, <1>7, NodesAssumption DEF WrState
  <2>2. SlavePart(rx, t)
    BY <1>6, <1>7, SlaveKeeps
  <2>3. ASSUME NEW k \in Nat
        PROVE  SlavePart(rx, ToWRState(t, "CALIBRATION", k))
    BY <1>6, <1>7, <2>1, SlaveEnters
  <2>4. ASSUME NEW k \in Nat
        PROVE  SlavePart(rx, ToWRState(o, "CALIBRATION", k))
    BY <1>4, <1>5, <1>6, <1>7, <2>1, SlaveEnters
  <2>5. SlavePart(rx, r)
    BY <1>1, <2>1, <2>2, <2>3, <2>4
  <2> QED
    BY <1>3, <1>7, <2>5, NodesAssumption DEF r
<1>8. CASE n = MasterNode
  <2>1. next = "WR_LINK_ON" /\ t.wrMode = "WR_MASTER"
    BY <1>2, <1>8, RunningPlace
  <2>2. 1 .. Len(t.out) = {}
    OBVIOUS
  <2>3. MasterPart(rx, t)
    BY <1>8, <2>2, MasterKeeps
  <2>4. t.wrSubstate \in {2, 3} => Heard(rx)
    BY <1>8 DEF HasAnswer
  <2>5. ASSUME NEW k \in Nat, Heard(rx)
        PROVE  MasterPart(rx, ToWRState(t, "WR_LINK_ON", k))
    BY <1>8, <2>1, <2>5, MasterTurnsOn
  <2>6. ASSUME NEW k \in Nat, Heard(rx)
        PROVE  MasterPart(rx, ToWRState(o, "WR_LINK_ON", k))
    BY <1>4, <1>5, <1>8, <2>1, <2>6, MasterTurnsOn
  <2>7. MasterPart(rx, r)
    BY <1>1, <2>1, <2>3, <2>4, <2>5, <2>6
  <2> QED
    BY <1>3, <1>8, <2>7, NodesAssumption DEF r
<1> QED
  BY <1>7, <1>8 DEF Node

\* WRS_RESP_CALIB_REQ, when the hardware keeps the port from reading.
LEMMA WrRespCalibReqNoFrameLink ==
  ASSUME TypedAndDriven, Modes, Lockstep, SlowTimers,
         NEW n \in Node, NEW p, Prepared(n, p),
         NEW expired \in BOOLEAN, expired => MayExpire(n),
         NEW hw \in Nat, NEW hwAgain \in Nat,
         WrRespCalibReqNoFrame(n, p, expired, hw, hwAgain)
  PROVE  Lockstep'
<1> DEFINE r == AfterCalibrated(p, hw)
<1>1. Running(p) /\ p.wrPortState = "RESP_CALIB_REQ"
  BY InWRStateRunning DEF WrRespCalibReqNoFrame, InWRState, Prepared
<1>2. Finish(n, NoFrame, EndOfWRState(r, expired, hwAgain))
  BY DEF WrRespCalibReqNoFrame
<1>3. p \in Port /\ ModeOK(n, p) /\ Up(p) /\ p.out = <<>>
  BY <1>1 DEF Prepared
<1>4. n = MasterNode /\ HasAnswer(p) => Heard(NoFrame)
  BY NodesAssumption DEF Prepared, HasAnswer, Heard
<1>5. /\ r \in Port /\ Running(r)
      /\ n = SlaveNode => SlavePart(NoFrame, r)
      /\ n = MasterNode => MasterPart(NoFrame, r)
  BY <1>1, <1>3, <1>4, AfterCalibratedLink
<1> HIDE DEF r
<1> QED
  BY <1>2, <1>5, NoFrameRead, EndLink

\* WRS_RESP_CALIB_REQ, when a frame is read: the slave's CALIBRATED is read in
\* this very turn, or was in an earlier one.
LEMMA WrRespCalibReqLink ==
  ASSUME TypedAndDriven, Modes, Lockstep, SlowTimers, faults = 0, faults' = 0,
         NEW n \in Node, NEW p, Prepared(n, p), NEW rx \in Frames(n),
         NEW expired \in BOOLEAN, expired => MayExpire(n),
         NEW hw \in Nat, NEW hwAgain \in Nat,
         WrRespCalibReq(n, p, rx, expired, hw, hwAgain)
  PROVE  Lockstep'
<1> DEFINE waiting == SendPattern(ToSubstate(p, "RESP_CALIB_REQ", 1), p.wrSubstate = 0)
           left == IF p.wrSubstate = 0 THEN hw - 1 ELSE hw
           q == Handle(waiting, rx)
           i == IF q.otherNodeCalSendPattern THEN 2 ELSE 3
           u == ToSubstate(q, q.wrPortState, i)
           a == AfterCalibrated(u, left)
<1>1. Running(p) /\ p.wrPortState = "RESP_CALIB_REQ"
  BY InWRStateRunning DEF WrRespCalibReq, InWRState, Prepared
<1>2. p.wrSubstate \in {0, 1} /\ left \in Nat
  BY DEF WrRespCalibReq
<1>3. PICK r : /\ r = q \/ (r = a /\ q.msgTmpWrMessageID = "CALIBRATED")
               /\ Finish(n, rx, EndOfWRState(r, expired, hwAgain))
  BY DEF WrRespCalibReq
<1>4. Read(n, rx)
  BY <1>3, NoFaultRead
<1>5. i \in {2, 3} /\ (i = 3 => ~q.otherNodeCalSendPattern)
  OBVIOUS
<1>6. p \in Port /\ ModeOK(n, p) /\ Up(p) /\ p.out = <<>>
  BY <1>1 DEF Prepared
<1>7. /\ waiting \in Port /\ Running(waiting) /\ ModeOK(n, waiting)
      /\ waiting.wrPortState = "RESP_CALIB_REQ"
  BY <1>1, <1>2, <1>6, WaitingMode
<1>8. /\ waiting.wrModeON = p.wrModeON /\ waiting.out = p.out /\ waiting.fresh = p.fresh
      /\ waiting.doRestart = p.doRestart /\ waiting.linkUP = p.linkUP
      /\ waiting.portState = p.portState /\ waiting.wrSubstate = 1
      /\ waiting.msgTmpWrMessageID = p.msgTmpWrMessageID
  BY <1>6 DEF SendPattern, ToSubstate, Port
<1> HIDE DEF waiting, left, i
<1>9. Up(waiting)
  BY <1>6, <1>8 DEF Up
<1>10. q \in Port /\ Running(q) /\ ModeOK(n, q)
  BY <1>7, HandleRunning
<1>11. /\ Up(q)
       /\ \/ Remembers(q, waiting, rx)
          \/ n = MasterNode /\ StartsOver(q, waiting)
  BY <1>4, <1>7, <1>9, HandleLink DEF Read
<1> HIDE DEF q, u, a
<1>12. CASE Remembers(q, waiting, rx)
  <2>1. /\ q.wrPortState = "RESP_CALIB_REQ" /\ q.wrSubstate = 1 /\ q.out = <<>>
        /\ q.wrModeON = p.wrModeON /\ q.fresh = p.fresh
        /\ q.msgTmpWrMessageID = p.msgTmpWrMessageID \/ q.msgTmpWrMessageID = rx.type
    BY <1>6, <1>7, <1>8, <1>12 DEF Remembers, SameLink
  <2>2. n = SlaveNode => SlavePart(rx, q)
    BY <1>1, <1>6, <1>11, <2>1, SlaveKeeps
  <2>3. n = MasterNode => MasterPart(rx, q)
    <3>1. ~HasAnswer(q) /\ 1 .. Len(q.out) = {}
      BY <2>1 DEF HasAnswer
    <3> QED
      BY <1>1, <1>11, <2>1, <3>1, MasterKeeps
  <2>4. ASSUME q.msgTmpWrMessageID = "CALIBRATED"
        PROVE  /\ a \in Port /\ Running(a)
               /\ n = SlaveNode => SlavePart(rx, a)
               /\ n = MasterNode => MasterPart(rx, a)
    <3>1. u \in Port /\ Running(u) /\ ModeOK(n, u) /\ u.wrPortState = "RESP_CALIB_REQ"
      BY <1>5, <1>10, <2>1, <2>4, AnsweredMode DEF u
    <3>2. /\ u.wrModeON = q.wrModeON /\ u.out = q.out /\ u.fresh = q.fresh
          /\ u.doRestart = q.doRestart /\ u.linkUP = q.linkUP
          /\ u.portState = q.portState
      BY <1>10 DEF u, ToSubstate, Port
    <3>3. Up(u)
      BY <1>11, <3>2 DEF Up
    <3>4. n = MasterNode => Heard(rx)
      <4>1. n = MasterNode => p.msgTmpWrMessageID # "CALIBRATED"
        BY <1>1, NodesAssumption DEF Prepared, Lockstep, Forgotten
      <4> QED
        BY <2>1, <2>4, <4>1 DEF Heard
    <3> QED
      BY <1>1, <1>2, <2>1, <3>1, <3>2, <3>3, <3>4, AfterCalibratedLink DEF a
  <2>5. /\ r \in Port /\ Running(r)
        /\ n = SlaveNode => SlavePart(rx, r)
        /\ n = MasterNode => MasterPart(rx, r)
    BY <1>3, <1>10, <2>2, <2>3, <2>4
  <2> QED
    BY <1>3, <1>4, <2>5, EndLink
<1>13. CASE n = MasterNode /\ StartsOver(q, waiting)
  <2>1. StartsOver(q, p)
    BY <1>8, <1>13 DEF StartsOver, Sent
  <2>2. MasterPart(rx, q)
    BY <1>1, <1>11, <1>13, <2>1, MasterOver
  <2>3. r = q
    BY <1>3, <2>1 DEF StartsOver
  <2> QED
    BY <1>3, <1>4, <1>10, <1>13, <2>2, <2>3, NodesAssumption, EndLink
<1> QED
  BY <1>11, <1>12, <1>13

-----------------------------------------------------------------------------
(* The steps.                                                              *)

\* A turn of the main loop.
LEMMA LoopTurnLink ==
  ASSUME TypedAndDriven, Modes, Lockstep, SlowTimers, faults = 0, faults' = 0,
         NEW n \in Node, LoopTurn(n)
  PROVE  Lockstep'
<1> DEFINE p == Ready(n)
<1>1. Prepared(n, p)
  BY ReadyLink DEF Lockstep, Healthy
<1> HIDE DEF p
<1>2. CASE LinkDown(n)
  BY <1>2 DEF LinkDown, Lockstep, Healthy
<1>3. CASE PlainTurn(n)
  <2>1. \/ Initializing(n, p) \/ PassThrough(n, p)
        \/ ListeningMaster(n, p) \/ WrLinkOn(n, p)
    BY <1>3 DEF PlainTurn, p
  <2> QED
    BY <1>1, <2>1, InitializingLink, PassThroughLink, ListeningMasterLink, WrLinkOnLink
<1>4. ASSUME NEW expired \in BOOLEAN, NEW hw \in HwAnswers, NEW hwAgain \in HwAnswersAgain,
             HardwareTurn(n, expired, hw, hwAgain)
      PROVE  Lockstep'
  <2>1. hw \in Nat /\ hwAgain \in Nat
    BY HwAnswersType
  <2>2. /\ expired => MayExpire(n)
        /\ \/ WrSLock(n, p, expired, hw, hwAgain)
           \/ WrCalibration(n, p, expired, hw, hwAgain)
           \/ WrRespCalibReqNoFrame(n, p, expired, hw, hwAgain)
    BY <1>4 DEF HardwareTurn, p
  <2> QED
    BY <1>1, <2>1, <2>2, WrSLockLink, WrCalibrationLink, WrRespCalibReqNoFrameLink
<1>5. ASSUME NEW expired \in BOOLEAN, NEW hw \in HwAnswers, NEW hwAgain \in HwAnswersAgain,
             NEW rx \in Frames(n), FrameTurn(n, rx, expired, hw, hwAgain)
      PROVE  Lockstep'
  <2>1. hw \in Nat /\ hwAgain \in Nat
    BY HwAnswersType
  <2>2. \/ Disabled(n, p, rx)
        \/ ListeningOrSlave(n, p, rx, expired)
        \/ Master(n, p, rx, expired)
        \/ /\ expired => MayExpire(n)
           /\ \/ WrPresent(n, p, rx, expired, hw, hwAgain)
              \/ WrMLock(n, p, rx, expired, hw, hwAgain)
              \/ WrLocked(n, p, rx, expired, hw, hwAgain)
              \/ WrCalibrated(n, p, rx, expired, hw, hwAgain)
              \/ WrRespCalibReq(n, p, rx, expired, hw, hwAgain)
    BY <1>5 DEF FrameTurn, p
  <2>3. CASE \/ Disabled(n, p, rx)
             \/ ListeningOrSlave(n, p, rx, expired)
             \/ Master(n, p, rx, expired)
    BY <1>1, <2>3, DisabledLink, ListeningOrSlaveLink, MasterLink
  <2>4. CASE /\ expired => MayExpire(n)
             /\ \/ WrPresent(n, p, rx, expired, hw, hwAgain)
                \/ WrMLock(n, p, rx, expired, hw, hwAgain)
                \/ WrLocked(n, p, rx, expired, hw, hwAgain)
                \/ WrCalibrated(n, p, rx, expired, hw, hwAgain)
                \/ WrRespCalibReq(n, p, rx, expired, hw, hwAgain)
    BY <1>1, <2>1, <2>4, WrPresentLink, WrMLockLink, WrLockedLink, WrCalibratedLink,
       WrRespCalibReqLink
  <2> QED
    BY <2>2, <2>3, <2>4
<1> QED
  BY <1>2, <1>3, <1>4, <1>5 DEF LoopTurn

\* The frames that stay when one is lost.
LEMMA LoseFrames ==
  ASSUME NEW queue \in Seq(Message), NEW i \in 1 .. Len(queue)
  PROVE  LET rest == SubSeq(queue, 1, i - 1) \o SubSeq(queue, i + 1, Len(queue))
         IN  /\ Len(queue) \in Nat /\ Len(rest) = Len(queue) - 1
             /\ \A j \in 1 .. Len(rest) : rest[j] = queue[IF j < i THEN j ELSE j + 1]
<1> DEFINE a == SubSeq(queue, 1, i - 1)
           b == SubSeq(queue, i + 1, Len(queue))
           rest == a \o b
<1>1. Len(queue) \in Nat
  OBVIOUS
<1>2. /\ a \in Seq(Message) /\ Len(a) = i - 1
      /\ \A j \in 1 .. i - 1 : a[j] = queue[j]
  BY <1>1
<1>3. /\ b \in Seq(Message) /\ Len(b) = Len(queue) - i
      /\ \A j \in 1 .. Len(queue) - i : b[j] = queue[i + j]
  BY <1>1
<1> HIDE DEF a, b
<1>4. Len(rest) = Len(queue) - 1
  <2>0. a \in Seq(Message) /\ b \in Seq(Message)
    BY <1>2, <1>3
  <2>1. Len(rest) = Len(a) + Len(b)
    BY <2>0
  <2> HIDE DEF rest
  <2> QED
    BY <1>1, <1>2, <1>3, <2>1
<1>5. ASSUME NEW j \in 1 .. Len(rest)
      PROVE  rest[j] = queue[IF j < i THEN j ELSE j + 1]
  <2>1. CASE j < i
    <3>1. rest[j] = a[j]
      BY <1>1, <1>2, <1>3, <1>4, <2>1
    <3> QED
      BY <1>1, <1>2, <1>4, <2>1, <3>1
  <2>2. CASE j >= i
    <3>1. rest[j] = b[j - (i - 1)] /\ j - (i - 1) \in 1 .. Len(queue) - i
      BY <1>1, <1>2, <1>3, <1>4, <2>2
    <3>2. i + (j - (i - 1)) = j + 1
      BY <1>1, <1>4
    <3>3. b[j - (i - 1)] = queue[j + 1]
      BY <1>3, <3>1, <3>2
    <3>4. ~(j < i)
      BY <1>1, <1>4, <2>2
    <3> QED
      BY <3>1, <3>3, <3>4
  <2> QED
    BY <1>1, <1>4, <2>1, <2>2
<1> QED
  BY <1>1, <1>4, <1>5 DEF a, b

\* The frames on their way are some of those that were.
LEMMA LoseFrameLink ==
  ASSUME TypedAndDriven, Lockstep, NEW n \in Node, LoseFrame(n)
  PROVE  Lockstep'
<1> DEFINE cs == chan[SlaveNode]
           cm == chan[MasterNode]
           ds == chan'[SlaveNode]
           dm == chan'[MasterNode]
<1>1. /\ SlaveNode \in Node /\ MasterNode \in Node
      /\ cs \in Seq(Message) /\ cm \in Seq(Message) /\ chan \in [Node -> Seq(Message)]
  BY DEF TypedAndDriven, TypeOK, Node
<1>2. port' = port /\ cable' = cable
  BY DEF LoseFrame
<1>3. PICK i \in 1 .. Len(chan[n]) :
        chan' = [chan EXCEPT ![n] =
                   SubSeq(chan[n], 1, i - 1) \o SubSeq(chan[n], i + 1, Len(chan[n]))]
  BY DEF LoseFrame
<1>4. /\ ds = cs \/ /\ i \in 1 .. Len(cs)
                    /\ ds = SubSeq(cs, 1, i - 1) \o SubSeq(cs, i + 1, Len(cs))
      /\ dm = cm \/ /\ i \in 1 .. Len(cm)
                    /\ dm = SubSeq(cm, 1, i - 1) \o SubSeq(cm, i + 1, Len(cm))
  BY <1>1, <1>3, NodesAssumption DEF Node
<1> HIDE DEF cs, cm, ds, dm
<1>5. \/ ds = cs
      \/ /\ i \in 1 .. Len(cs) /\ Len(cs) \in Nat /\ Len(ds) = Len(cs) - 1
         /\ \A j \in 1 .. Len(ds) : ds[j] = cs[IF j < i THEN j ELSE j + 1]
  BY <1>1, <1>4, LoseFrames
<1>6. \/ dm = cm
      \/ /\ i \in 1 .. Len(cm) /\ Len(cm) \in Nat /\ Len(dm) = Len(cm) - 1
         /\ \A j \in 1 .. Len(dm) : dm[j] = cm[IF j < i THEN j ELSE j + 1]
  BY <1>1, <1>4, LoseFrames
<1>7. cm = <<>> => dm = <<>>
  <2>1. cm = <<>> => 1 .. Len(cm) = {}
    OBVIOUS
  <2> QED
    BY <1>6, <2>1
<1>8. Healthy' /\ Forgotten'
  BY <1>2 DEF Lockstep, Healthy, Forgotten
<1>9. NothingLeft'
  BY <1>2, <1>7 DEF Lockstep, NothingLeft, cm, dm
<1>10. Answered'
  BY <1>2, <1>7 DEF Lockstep, Answered, SlaveWaits, cm, dm
<1>11. LastFrame'
  <2>1. \A j \in 1 .. Len(cm) : cm[j].type = "CALIBRATED" => SlaveWaits /\ j = Len(cm)
    BY DEF Lockstep, LastFrame, cm
  <2>2. ASSUME NEW j \in 1 .. Len(dm), dm[j].type = "CALIBRATED"
        PROVE  SlaveWaits /\ j = Len(dm)
    <3>1. CASE dm = cm
      BY <2>1, <2>2, <3>1
    <3>2. CASE /\ i \in 1 .. Len(cm) /\ Len(cm) \in Nat /\ Len(dm) = Len(cm) - 1
               /\ dm[j] = cm[IF j < i THEN j ELSE j + 1]
      <4> DEFINE k == IF j < i THEN j ELSE j + 1
      <4>1. k \in 1 .. Len(cm) /\ (k = Len(cm) => j = Len(dm))
        BY <3>2
      <4>2. cm[k].type = "CALIBRATED"
        BY <2>2, <3>2
      <4> HIDE DEF k
      <4> QED
        BY <2>1, <4>1, <4>2
    <3> QED
      BY <1>6, <3>1, <3>2
  <2> QED
    BY <1>2, <2>2 DEF LastFrame, SlaveWaits, dm
<1>12. ModeOnComes'
  <2>1. \A j \in 1 .. Len(cs) : cs[j].type = "WR_MODE_ON" =>
          /\ SlaveWaits /\ cm = <<>> /\ port[MasterNode].wrModeON
          /\ \A l \in j + 1 .. Len(cs) : SaysOn(cs[l])
    BY DEF Lockstep, ModeOnComes, cs, cm
  <2>2. ASSUME NEW j \in 1 .. Len(ds), ds[j].type = "WR_MODE_ON"
        PROVE  /\ SlaveWaits /\ cm = <<>> /\ port[MasterNode].wrModeON
               /\ \A l \in j + 1 .. Len(ds) : SaysOn(ds[l])
    <3>1. CASE ds = cs
      BY <2>1, <2>2, <3>1
    <3>2. CASE /\ i \in 1 .. Len(cs) /\ Len(cs) \in Nat /\ Len(ds) = Len(cs) - 1
               /\ \A l \in 1 .. Len(ds) : ds[l] = cs[IF l < i THEN l ELSE l + 1]
      <4> DEFINE k(l) == IF l < i THEN l ELSE l + 1
      <4>1. k(j) \in 1 .. Len(cs)
        BY <3>2
      <4>2. cs[k(j)].type = "WR_MODE_ON"
        BY <2>2, <3>2
      <4>3. ASSUME NEW l \in j + 1 .. Len(ds)
            PROVE  k(l) \in k(j) + 1 .. Len(cs) /\ ds[l] = cs[k(l)]
        <5>1. l \in 1 .. Len(ds)
          BY <3>2
        <5>2. k(l) \in k(j) + 1 .. Len(cs)
          BY <3>2
        <5> QED
          BY <3>2, <5>1, <5>2
      <4> HIDE DEF k
      <4> QED
        BY <2>1, <4>1, <4>2, <4>3
    <3> QED
      BY <1>5, <3>1, <3>2
  <2> QED
    BY <1>2, <1>7, <2>2 DEF ModeOnComes, SlaveWaits, ds, cm, dm
<1>13. BothOn'
  <2>1. port[SlaveNode].wrModeON =>
          /\ port[MasterNode].wrModeON
          /\ \A j \in 1 .. Len(cs) : cs[j].type = "ANNOUNCE" => cs[j].flag
    BY DEF Lockstep, BothOn, cs
  <2>2. ASSUME NEW j \in 1 .. Len(ds), ds # cs
        PROVE  \E k \in 1 .. Len(cs) : ds[j] = cs[k]
    <3>1. /\ Len(cs) \in Nat /\ Len(ds) = Len(cs) - 1
          /\ ds[j] = cs[IF j < i THEN j ELSE j + 1]
      BY <1>5, <2>2
    <3>2. (IF j < i THEN j ELSE j + 1) \in 1 .. Len(cs)
      BY <3>1
    <3> QED
      BY <3>1, <3>2
  <2>3. port[SlaveNode].wrModeON =>
          \A j \in 1 .. Len(ds) : ds[j].type = "ANNOUNCE" => ds[j].flag
    BY <2>1, <2>2
  <2> QED
    BY <1>2, <2>1, <2>3 DEF BothOn, ds
<1> QED
  BY <1>8, <1>9, <1>10, <1>11, <1>12, <1>13 DEF Lockstep

\* The daemons start with the cable plugged and nothing on its way.
LEMMA InitLink ==
  ASSUME Init
  PROVE  Lockstep
<1>1. PICK event \in [Node -> EventGarbage] :
        port = [n \in Node |-> FreshPort(n, event[n])]
  BY DEF Init
<1>2. /\ SlaveNode \in Node /\ MasterNode \in Node
      /\ chan[SlaveNode] = <<>> /\ chan[MasterNode] = <<>> /\ cable
  BY DEF Init, Node
<1>3. \A n \in Node : /\ Awake(port[n])
                      /\ port[n].wrPortState = "PRESENT" /\ ~port[n].wrModeON
                      /\ port[n].msgTmpWrMessageID = "NULL_WR_TLV"
  BY <1>1 DEF FreshPort, Awake
<1>4. 1 .. Len(chan[SlaveNode]) = {} /\ 1 .. Len(chan[MasterNode]) = {}
  BY <1>2
<1> QED
  BY <1>2, <1>3, <1>4 DEF Lockstep, Healthy, NothingLeft, LastFrame, Answered, HasAnswer,
     ModeOnComes, BothOn, Forgotten

\* A turn counts a fault or leaves the count alone.
LEMMA FinishFaults ==
  ASSUME NEW n, NEW rx, NEW q, Finish(n, rx, q)
  PROVE  faults' = faults \/ faults' = faults + 1
BY DEF Finish

\* A turn of the main loop counts at most one fault.
LEMMA LoopTurnFaults ==
  ASSUME NEW n \in Node, LoopTurn(n)
  PROVE  faults' = faults \/ faults' = faults + 1
<1>1. ASSUME NEW p, NEW rx, NEW expired, NEW hw, NEW hwAgain,
             \/ Initializing(n, p) \/ PassThrough(n, p)
             \/ ListeningMaster(n, p) \/ WrLinkOn(n, p)
             \/ Disabled(n, p, rx)
             \/ ListeningOrSlave(n, p, rx, expired)
             \/ Master(n, p, rx, expired)
             \/ WrSLock(n, p, expired, hw, hwAgain)
             \/ WrCalibration(n, p, expired, hw, hwAgain)
             \/ WrRespCalibReqNoFrame(n, p, expired, hw, hwAgain)
             \/ WrPresent(n, p, rx, expired, hw, hwAgain)
             \/ WrMLock(n, p, rx, expired, hw, hwAgain)
             \/ WrLocked(n, p, rx, expired, hw, hwAgain)
             \/ WrCalibrated(n, p, rx, expired, hw, hwAgain)
             \/ WrRespCalibReq(n, p, rx, expired, hw, hwAgain)
      PROVE  faults' = faults \/ faults' = faults + 1
  <2>1. CASE Initializing(n, p)
    BY <2>1, FinishFaults DEF Initializing
  <2>2. CASE PassThrough(n, p)
    BY <2>2, FinishFaults DEF PassThrough
  <2>3. CASE ListeningMaster(n, p)
    BY <2>3, FinishFaults DEF ListeningMaster
  <2>4. CASE WrLinkOn(n, p)
    BY <2>4, FinishFaults DEF WrLinkOn
  <2>5. CASE Disabled(n, p, rx)
    BY <2>5, FinishFaults DEF Disabled
  <2>6. CASE ListeningOrSlave(n, p, rx, expired)
    BY <2>6, FinishFaults DEF ListeningOrSlave
  <2>7. CASE Master(n, p, rx, expired)
    BY <2>7, FinishFaults DEF Master
  <2>8. CASE WrSLock(n, p, expired, hw, hwAgain)
    BY <2>8, FinishFaults DEF WrSLock
  <2>9. CASE WrCalibration(n, p, expired, hw, hwAgain)
    BY <2>9, FinishFaults DEF WrCalibration
  <2>10. CASE WrRespCalibReqNoFrame(n, p, expired, hw, hwAgain)
    BY <2>10, FinishFaults DEF WrRespCalibReqNoFrame
  <2>11. CASE WrPresent(n, p, rx, expired, hw, hwAgain)
    BY <2>11, FinishFaults DEF WrPresent
  <2>12. CASE WrMLock(n, p, rx, expired, hw, hwAgain)
    BY <2>12, FinishFaults DEF WrMLock
  <2>13. CASE WrLocked(n, p, rx, expired, hw, hwAgain)
    BY <2>13, FinishFaults DEF WrLocked
  <2>14. CASE WrCalibrated(n, p, rx, expired, hw, hwAgain)
    BY <2>14, FinishFaults DEF WrCalibrated
  <2>15. CASE WrRespCalibReq(n, p, rx, expired, hw, hwAgain)
    BY <2>15, FinishFaults DEF WrRespCalibReq
  <2> QED
    BY <1>1, <2>1, <2>2, <2>3, <2>4, <2>5, <2>6, <2>7, <2>8, <2>9, <2>10, <2>11, <2>12,
       <2>13, <2>14, <2>15
<1>2. LinkDown(n) => faults' = faults \/ faults' = faults + 1
  BY FinishFaults DEF LinkDown
<1>3. PlainTurn(n) => faults' = faults \/ faults' = faults + 1
  BY <1>1 DEF PlainTurn
<1>4. ASSUME NEW expired, NEW hw, NEW hwAgain, HardwareTurn(n, expired, hw, hwAgain)
      PROVE  faults' = faults \/ faults' = faults + 1
  BY <1>1, <1>4 DEF HardwareTurn
<1>5. ASSUME NEW expired, NEW hw, NEW hwAgain, NEW rx, FrameTurn(n, rx, expired, hw, hwAgain)
      PROVE  faults' = faults \/ faults' = faults + 1
  BY <1>1, <1>5 DEF FrameTurn
<1> QED
  BY <1>2, <1>3, <1>4, <1>5 DEF LoopTurn

\* Every step keeps the invariant.
LEMMA NextLink ==
  ASSUME SlowTimers, TypedAndDriven, Modes, HandshakeOK, [Next]_vars
  PROVE  HandshakeOK'
<1> SUFFICES ASSUME faults' = 0
             PROVE  Lockstep'
  BY DEF HandshakeOK
<1>1. faults \in Nat
  BY BoundAssumption DEF TypedAndDriven, TypeOK
<1>2. faults = 0
  <2>1. faults' = faults \/ faults' = faults + 1
    BY LoopTurnFaults DEF Next, Restart, LoseFrame, Unplug, Plug, vars
  <2> QED
    BY <1>1, <2>1
<1>3. Lockstep
  BY <1>2 DEF HandshakeOK
<1>4. CASE UNCHANGED vars
  BY <1>3, <1>4 DEF vars, Lockstep, Healthy, NothingLeft, LastFrame, Answered, SlaveWaits,
     ModeOnComes, BothOn, Forgotten
<1>5. ASSUME NEW n \in Node, LoopTurn(n)
      PROVE  Lockstep'
  BY <1>2, <1>3, <1>5, LoopTurnLink
<1>6. ASSUME NEW n \in Node, LoseFrame(n)
      PROVE  Lockstep'
  BY <1>3, <1>6, LoseFrameLink
<1>7. ASSUME NEW n \in Node, Restart(n)
      PROVE  FALSE
  BY <1>2, <1>7 DEF Restart
<1>8. CASE Unplug
  BY <1>2, <1>8 DEF Unplug
<1>9. CASE Plug
  BY <1>3, <1>9 DEF Plug, Lockstep, Healthy
<1> QED
  BY <1>4, <1>5, <1>6, <1>7, <1>8, <1>9 DEF Next

\* As long as no fault happens and the timers are slow, the handshake is in step:
\* a port goes on only on a frame that the other end has sent for it.
THEOREM HandshakeInStep ==
  ASSUME SlowTimers
  PROVE  Spec => []HandshakeOK
<1>1. Init => HandshakeOK
  BY InitLink DEF HandshakeOK
<1>2. TypedAndDriven /\ Modes /\ HandshakeOK /\ [Next]_vars => HandshakeOK'
  BY NextLink
<1> QED
  BY <1>1, <1>2, ModesInvariant, PTL DEF Spec

\* The slave switches WR mode on (wr_protocol.c, WRS_WR_LINK_ON) only when the
\* master has, and the master does not switch it off while the slave is in it,
\* whichever frames of the handshake are lost and however often it is repeated.
THEOREM LinkAgrees ==
  ASSUME SlowTimers
  PROVE  Spec => []LinkOnAgreement
<1>1. HandshakeOK => LinkOnAgreement
  BY DEF HandshakeOK, Lockstep, BothOn, LinkOnAgreement
<1> QED
  BY <1>1, HandshakeInStep, PTL

\* Every announce that is still on its way to a slave in WR mode was sent by a
\* master in WR mode (issueAnnounce()), so none makes the slave start over.
THEOREM AnnouncesAreFresh ==
  ASSUME SlowTimers
  PROVE  Spec => []NoStaleAnnounce
<1>1. HandshakeOK => NoStaleAnnounce
  BY DEF HandshakeOK, Lockstep, BothOn, NoStaleAnnounce
<1> QED
  BY <1>1, HandshakeInStep, PTL

=============================================================================
