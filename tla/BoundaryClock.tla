--------------------------- MODULE BoundaryClock ----------------------------
(***************************************************************************)
(* The choice of a master by a clock of several ports (PTPWRd/protocol.c   *)
(* and bmc.c), with neighbours that are standard PTP clocks: which state   *)
(* each port is in, whom the clock follows, and what happens when masters  *)
(* change, fall silent or are replugged.                                   *)
(*                                                                         *)
(* multiProtocol() serves the ports one after the other and then does what *)
(* is done for all of them: one step is one port's turn, or the latter.  A *)
(* turn takes a millisecond and the masters announce every second or so:   *)
(* time is counted in announce intervals, and a loop in which something is *)
(* still to be done ends before the next one.                              *)
(***************************************************************************)
EXTENDS Bmc, TLC

CONSTANTS
  NumberPorts,     \* below MAX_PORT_NUMBER: all data sets are allocated
  MaxRecords,      \* max_foreign_records, 5
  Receipt,         \* announceReceiptTimeout, 6 intervals
  Configs,         \* bound: the wrConfig of the ports, as in [Ports -> ...]
  Identity,        \* clockIdentity, which each port has its own of
  Own,             \* bound: what the clock may be: its own data set
  Masters,         \* the masters: each a port of another clock
  Cables,          \* bound: which port each master is at
  Announces,       \* bound: the data sets a master may announce
  MaxEvents        \* bound: how often masters or cables change

Ports == 1 .. NumberPorts
Off == Receipt + 1
PortStates == {"INITIALIZING", "LISTENING", "MASTER", "PASSIVE", "SLAVE"}

ASSUME BoundaryAssumption ==
  /\ NumberPorts \in Nat \ {0} /\ MaxRecords \in Nat \ {0} /\ Receipt \in Nat \ {0}
  /\ Configs \subseteq [Ports -> {"NON_WR", "M_AND_S", "M_ONLY", "S_ONLY"}]
  /\ Identity \in [Ports -> Nat] /\ Own \subseteq DataSets
  /\ \A m \in Masters : \A d \in Announces[m] :
       d \in DataSets /\ d.port = 0 /\ \A p \in Ports : d.sender # Identity[p]
  /\ Cables \subseteq [Masters -> Ports] /\ MaxEvents \in Nat

VARIABLES
  clock,       \* PtpClockDS
  port,        \* PtpPortDS, of each port
  at,          \* the port whose turn it is, or NumberPorts + 1
  config,      \* wrConfig
  cable,       \* the port each master is at
  plugged,     \* the ports with a link
  announced,   \* what each master announces, Empty if it is silent
  due,         \* masters whose announce of this interval is still to come
  events,      \* the changes so far
  quiet        \* the intervals since the last change, up to Receipt + 1

vars == <<clock, port, at, config, cable, plugged, announced, due, events, quiet>>

\* sourcePortIdentity.
PortIdentity(d) == <<d.sender, d.from>>

Records == 0 .. MaxRecords - 1
Announcements == UNION {Announces[m] : m \in Masters}
DataSet == Announcements \cup {Empty}
Record == {[d EXCEPT !.port = p] : d \in DataSet, p \in Ports \cup {0}}

ClockDS ==
  [own : Own \cup {[d EXCEPT !.clockClass = 7] : d \in Own}, parent : DataSet,
   primary : Ports \cup {0}, Ebest : -1 .. NumberPorts,
   bestForeign : (1 .. NumberPorts + 1) \X Records, event : BOOLEAN]

PortDS ==
  [state : PortStates, foreign : [Records -> Record],
   identity : [Records -> {PortIdentity(d) : d \in DataSet}], number : 0 .. MaxRecords,
   next : Records, best : Records, update : BOOLEAN, linkUP : BOOLEAN,
   role : {"NON_SLAVE", "PRIMARY_SLAVE", "SECONDARY_SLAVE"}, receipt : 0 .. Off]

TypeOK ==
  /\ clock \in ClockDS /\ port \in [Ports -> PortDS]
  /\ at \in 1 .. NumberPorts + 1 /\ config \in Configs /\ cable \in Cables
  /\ announced \in [Masters -> DataSet]
  /\ due \subseteq Masters /\ plugged \subseteq Ports /\ events \in 0 .. MaxEvents
  /\ quiet \in 0 .. Receipt + 1

\* What the daemon starts with: the memory is zeroed, but for the first value
\* of globalStateDecisionEvent.
Init ==
  /\ config \in Configs /\ cable \in Cables /\ plugged = Ports
  /\ announced \in {f \in [Masters -> DataSet] :
                      \A m \in Masters : f[m] \in Announces[m] \cup {Empty}}
  /\ \E own \in Own, event \in BOOLEAN :
       clock = [own |-> own, parent |-> Empty, primary |-> 0, Ebest |-> -1,
                bestForeign |-> <<1, 0>>, event |-> event]
  /\ port = [p \in Ports |->
               [state |-> "INITIALIZING", foreign |-> [r \in Records |-> Empty],
                identity |-> [r \in Records |-> PortIdentity(Empty)], number |-> 0, next |-> 0, best |-> 0, update |-> FALSE,
                role |-> "NON_SLAVE", receipt |-> Off, linkUP |-> FALSE]]
  /\ at = 1 /\ due = {} /\ events = 0 /\ quiet = 0

-----------------------------------------------------------------------------
\* A port in its turn: what each function does to s, the data sets of the
\* clock (s.clock) and of the port (s.port).

\* Unpacking an announce does not touch receptionPortNumber.
Overwrite(r, d) == [d EXCEPT !.port = r.port]

M1(s) == [s EXCEPT !.clock.primary = 0, !.port.role = "NON_SLAVE"]

\* Mutant: m3() and p1() forget the role.
NotSlaveKeepsRole(s) == s

\* M3 and P1.
NotSlave(s) == [s EXCEPT !.port.role = "NON_SLAVE"]

\* The parent and current data sets; a parent is kept as it was announced.
S1(s, p, d) ==
  [s EXCEPT !.clock.parent = [d EXCEPT !.port = 0], !.clock.primary = p,
            !.port.role = "PRIMARY_SLAVE"]

S2(s) == [s EXCEPT !.port.role = "SECONDARY_SLAVE"]

\* Leaving any state stops the receipt timer, where it may be running.
ToState(s, state) ==
  [s EXCEPT !.port.state = state,
            !.port.receipt = IF state = "LISTENING" THEN Receipt ELSE Off]

\* A slave with a neighbour that is not in WR mode: entering PTP_UNCALIBRATED
\* falls through to PTP_SLAVE.
FallThroughToSlave(s) == ToState(s, "SLAVE")

ClearForeignMasters(s) ==
  [s EXCEPT !.port.foreign = [r \in Records |-> IF r < s.port.number THEN [@[r] EXCEPT !.port = 0] ELSE @[r]],
            !.port.next = 0, !.port.number = 0, !.port.best = 0]

\* The next record to be written and the best one are not initialised.
DoInit(s) == M1(ToState([s EXCEPT !.port.number = 0], "LISTENING"))

\* The head of singlePortLoop().
CheckLink(s, p) ==
  LET up == p \in plugged
      t == IF up /\ ~s.port.linkUP THEN DoInit(s) ELSE s
      u == IF up # s.port.linkUP /\ config[p] = "S_ONLY" THEN ClearForeignMasters(t) ELSE t
  IN  [u EXCEPT !.port.linkUP = up]

\* The record that bestForeign points at: in the port's own table, or in that
\* of another port, or in a data set of no port, which is zeroed.
BestForeign(s, p) ==
  LET q == s.clock.bestForeign[1]
      r == s.clock.bestForeign[2]
  IN  IF q = p THEN s.port.foreign[r]
      ELSE IF q \in Ports THEN port[q].foreign[r] ELSE Empty

\* copyD0(): the clock's own data set, as port p has it.
CopyD0(own, p) ==
  [own EXCEPT !.gm = Identity[p], !.steps = 0, !.sender = Identity[p], !.port = p]

\* bmcStateDecision(): d is the best record of the port.
StateDecision(s, p, d) ==
  LET id   == Identity[p]
      own  == CopyD0(s.clock.own, p)
      best == BestForeign(s, p)
      erbest == Comparison(own, d, id)
      ebest  == Comparison(own, best, id)
  IN  CASE config[p] = "S_ONLY" -> <<S1(s, p, d), "SLAVE">>
        [] config[p] = "M_ONLY" -> <<M1(s), "MASTER">>
        [] config[p] \notin {"S_ONLY", "M_ONLY"} ->
             IF s.port.number = 0 /\ s.port.state = "LISTENING" THEN <<s, "LISTENING">>
             ELSE IF own.clockClass < 128
             THEN CASE erbest < 0 -> <<M1(s), "MASTER">>
                    [] erbest > 0 -> <<NotSlave(s), "PASSIVE">>
                    [] erbest = 0 -> <<s, "PASSIVE">>
             ELSE CASE ebest < 0 -> <<M1(s), "MASTER">>
                    [] ebest > 0 -> IF best.port = p THEN <<S1(s, p, d), "SLAVE">>
                                    ELSE IF Comparison(best, d, id) = -2
                                         THEN <<S2(s), "SLAVE">> ELSE <<NotSlave(s), "MASTER">>
                    [] ebest = 0 -> <<s, "PASSIVE">>

\* bmc().
BmcDecision(s, p) ==
  IF s.clock.Ebest < 0 /\ s.port.state = "MASTER" THEN <<M1(s), "MASTER">>
  ELSE StateDecision(s, p, s.port.foreign[s.port.best])

\* The state decision event in doState().
Decide(s, p) ==
  IF ~s.clock.event THEN s
  ELSE LET t == [s EXCEPT !.port.update = FALSE]
           decision == BmcDecision(t, p)
       IN  CASE decision[2] = s.port.state -> decision[1]
             [] decision[2] # s.port.state /\ decision[2] = "SLAVE" ->
                  FallThroughToSlave(decision[1])
             [] decision[2] # s.port.state /\ decision[2] # "SLAVE" ->
                  ToState(decision[1], decision[2])

\* Mutant: the next record is not taken modulo the size of the table.
AddForeignNoWrap(s, p, d) ==
  LET n == s.port.number
      looked == [i \in 1 .. n |-> IF i = 1 THEN s.port.best ELSE (s.port.best + i - 1) % n]
      known == {i \in 1 .. n : s.port.identity[looked[i]] = PortIdentity(d)}
      new == s.port.next
  IN  IF known # {} THEN [s EXCEPT !.port.foreign[looked[Min(known)]] = Overwrite(@, d)]
      ELSE [s EXCEPT !.port.foreign[new] = [d EXCEPT !.port = p],
                     !.port.identity[new] = PortIdentity(d),
                     !.port.number = IF @ < MaxRecords THEN @ + 1 ELSE @,
                     !.port.next = new + 1]

\* addForeign(): as many records as are in use are looked at, the best one first.
AddForeign(s, p, d) ==
  LET n == s.port.number
      looked == [i \in 1 .. n |-> IF i = 1 THEN s.port.best ELSE (s.port.best + i - 1) % n]
      known == {i \in 1 .. n : s.port.identity[looked[i]] = PortIdentity(d)}
      new == s.port.next
  IN  IF known # {} THEN [s EXCEPT !.port.foreign[looked[Min(known)]] = Overwrite(@, d)]
      ELSE [s EXCEPT !.port.foreign[new] = [d EXCEPT !.port = p],
                     !.port.identity[new] = PortIdentity(d),
                     !.port.number = IF @ < MaxRecords THEN @ + 1 ELSE @,
                     !.port.next = (new + 1) % MaxRecords]

\* Mutant: an announce to a port that is no slave starts no decision.
HandleAnnounceQuietly(s, p, d) ==
  LET t == [s EXCEPT !.port.update = TRUE]
  IN  CASE s.port.state = "INITIALIZING" -> s
        [] s.port.state = "SLAVE" ->
             [IF PortIdentity(d) = PortIdentity(s.clock.parent)
              THEN [t EXCEPT !.port.foreign[s.port.best] = Overwrite(@, d)]
              ELSE AddForeign(t, p, d) EXCEPT !.port.receipt = Receipt]
        [] s.port.state \in {"LISTENING", "PASSIVE", "MASTER"} -> AddForeign(s, p, d)

\* handleAnnounce(). A slave overwrites the best record with what its parent
\* announces, without a look at whose record it is.
HandleAnnounce(s, p, d) ==
  LET t == [s EXCEPT !.port.update = TRUE]
  IN  CASE s.port.state = "INITIALIZING" -> s
        [] s.port.state = "SLAVE" ->
             [IF PortIdentity(d) = PortIdentity(s.clock.parent)
              THEN [t EXCEPT !.port.foreign[s.port.best] = Overwrite(@, d)]
              ELSE AddForeign(t, p, d) EXCEPT !.port.receipt = Receipt]
        [] s.port.state \in {"LISTENING", "PASSIVE", "MASTER"} -> AddForeign(t, p, d)

\* handle(), with the announce of one of the masters or nothing.
Handle(s, p, heard) ==
  IF heard = {} THEN s ELSE HandleAnnounce(s, p, announced[CHOOSE m \in heard : TRUE])

\* The receipt timeout, which starts the timer again.
ReceiptTimeout(s, p) ==
  IF s.port.receipt # 0 THEN s
  ELSE LET t == [s EXCEPT !.port.number = 0, !.port.next = 0, !.port.receipt = Receipt]
       IN  IF config[p] # "S_ONLY" /\ s.clock.own.clockClass # 255 THEN ToState(M1(t), "MASTER")
           ELSE IF s.port.state # "LISTENING" THEN ToState(t, "LISTENING") ELSE t

\* A port that is master only leaves PTP_LISTENING without listening.
Listens(s, p) == p \in plugged /\ ~(s.port.state = "LISTENING" /\ config[p] = "M_ONLY")

\* doState() after the decision, by the state the port is in.
DoState(s, p, heard) ==
  LET t == Handle(s, p, heard)
  IN  IF ~Listens(s, p) THEN ToState(M1(s), "MASTER")
      ELSE IF s.port.state # "MASTER" THEN ReceiptTimeout(t, p)
      ELSE IF config[p] = "S_ONLY" \/ t.clock.own.clockClass = 255 THEN ToState(t, "LISTENING")
      ELSE t

-----------------------------------------------------------------------------
\* singlePortLoop(). At most one frame is read in a turn.
SinglePortLoop ==
  /\ at \in Ports
  /\ LET decided == Decide(CheckLink([clock |-> clock, port |-> port[at]], at), at)
     IN  \E heard \in SUBSET {m \in due : cable[m] = at} :
           /\ Cardinality(heard) <= 1 /\ (heard # {} => Listens(decided, at))
           /\ LET s == IF at \in plugged THEN DoState(decided, at, heard)
                       ELSE CheckLink([clock |-> clock, port |-> port[at]], at)
              IN  clock' = s.clock /\ port' = [port EXCEPT ![at] = s.port]
           /\ due' = due \ heard
  /\ at' = at + 1
  /\ UNCHANGED <<config, cable, plugged, announced, events, quiet>>

\* ErBest(): it looks at the table of port p, as many records of it as port 1
\* has, and sets the best record of port 1.
ErBest(p) ==
  IF port[1].number = 0 THEN 0
  ELSE BestIndex([r \in 1 .. port[1].number |-> port[p].foreign[r - 1]],
                 1 .. port[1].number, Identity[1]) - 1

Filled == {p \in Ports : port[p].number > 0}

\* Mutant: the first port with a record is taken for the best.
EBestFirst(best) == IF Filled = {} THEN NumberPorts ELSE Min(Filled) - 1

\* EBest(), when port 1 has its record `best': the index of a port, which
\* starts from 0, or numberPorts if no port has a record.
EBest(best) ==
  LET records == [p \in Ports |-> port[p].foreign[IF p = 1 THEN best ELSE port[p].best]]
      first == BestIndex(records, Filled, Identity[1])
  IN  IF first = 0 THEN NumberPorts ELSE first - 1

\* globalBestForeignMastersUpdate(): of several calls of ErBest() the last one
\* decides. The data sets of the clock and of port 1 afterwards.
GlobalBestForeignMastersUpdate ==
  LET updated == {p \in Ports : port[p].update}
      best == ErBest(Max(updated))
      Ebest == EBest(best)
  IN  IF updated = {} THEN [clock |-> [clock EXCEPT !.event = FALSE], port |-> port[1]]
      ELSE [port |-> [port[1] EXCEPT !.best = best],
            clock |-> [clock EXCEPT
              !.event = TRUE, !.Ebest = Ebest,
              !.bestForeign = <<Ebest + 1, CASE Ebest = 0           -> best
                                             [] Ebest = NumberPorts -> 0
                                             [] OTHER               -> port[Ebest + 1].best>>]]

\* checkClockClassValidity(): what it may leave of the clock's data set.
CheckClockClassValidity(c) ==
  {c} \cup IF c.own.clockClass = 6 THEN {[c EXCEPT !.own.clockClass = 7]} ELSE {}

\* sharedPortsLoop(). What globalSecondSlavesUpdate() finds nobody reads.
SharedPortsLoop ==
  /\ at = NumberPorts + 1
  /\ clock' \in CheckClockClassValidity(GlobalBestForeignMastersUpdate.clock)
  /\ port' = [port EXCEPT ![1] = GlobalBestForeignMastersUpdate.port]
  /\ quiet' = IF clock'.own = clock.own THEN quiet ELSE 0
  /\ at' = 1
  /\ UNCHANGED <<config, cable, plugged, announced, due, events>>

\* The next announce interval: the masters announce again.
Tick ==
  /\ at = 1 /\ ~clock.event
  /\ \A p \in plugged : port[p].linkUP /\ port[p].receipt # 0
  /\ \A m \in due : cable[m] \notin plugged
  /\ due' = due \cup {m \in Masters : announced[m] # Empty /\ cable[m] \in plugged}
  /\ port' = [p \in Ports |-> [port[p] EXCEPT !.receipt = IF @ \in {0, Off} THEN @ ELSE @ - 1]]
  /\ quiet' = Min({quiet + 1, Receipt + 1})
  /\ UNCHANGED <<clock, at, config, cable, plugged, announced, events>>

-----------------------------------------------------------------------------
\* The neighbours.

Happens == events < MaxEvents /\ events' = events + 1 /\ quiet' = 0

\* A master announces another data set, falls silent or starts.
Change(m) ==
  /\ Happens
  /\ announced' \in {[announced EXCEPT ![m] = d] : d \in (Announces[m] \cup {Empty}) \ {announced[m]}}
  /\ due' = IF announced'[m] = Empty THEN due \ {m} ELSE due
  /\ UNCHANGED <<clock, port, at, config, cable, plugged>>

\* What the port has not read yet is lost, or still in its socket.
Unplug(p) ==
  /\ Happens
  /\ p \in plugged /\ plugged' = plugged \ {p}
  /\ due' \in {due, {m \in due : cable[m] # p}}
  /\ UNCHANGED <<clock, port, at, config, cable, announced>>

Plug(p) ==
  /\ p \notin plugged /\ plugged' = plugged \cup {p} /\ quiet' = 0
  /\ UNCHANGED <<clock, port, at, config, cable, announced, due, events>>

LoseAnnounce(m) ==
  /\ Happens
  /\ m \in due /\ due' = due \ {m}
  /\ UNCHANGED <<clock, port, at, config, cable, plugged, announced>>

LoopTurn == SinglePortLoop \/ SharedPortsLoop

Next ==
  \/ LoopTurn \/ Tick
  \/ \E m \in Masters : Change(m) \/ LoseAnnounce(m)
  \/ \E p \in Ports : Unplug(p) \/ Plug(p)

Spec == Init /\ [][Next]_vars

-----------------------------------------------------------------------------
\* What it takes to follow one master: beside a port that can only be a slave the
\* others can only be masters; no clockClass 255, with which a port that hears
\* nobody listens and keeps its role; and a variance that differs from that of the
\* clock does so in the first byte, all that bmcDataSetComparison() looks at.
OneUplink ==
  /\ \A c \in Configs : \A p, q \in Ports : c[p] = "S_ONLY" /\ p # q => c[q] = "M_ONLY"
  /\ \A d \in Own : d.clockClass # 255
  /\ \A d \in Own : \A e \in Announcements :
       FirstByte(d.variance) = FirstByte(e.variance) => d.variance = e.variance

\* The clock follows at most one master: one port is the primary slave, and
\* the parent is a master at this port (bmcStateDecision(), s1() and m1()).
OnePrimarySlave ==
  at = NumberPorts + 1 =>
    \A p, q \in {r \in Ports : port[r].linkUP} :
      port[p].role = "PRIMARY_SLAVE" /\ port[q].role = "PRIMARY_SLAVE" => p = q

\* The masters that can be heard, and the records in use.
Live == {m \in Masters : announced[m] # Empty /\ cable[m] \in plugged}
RecordsOf(p) == {port[p].foreign[r] : r \in 0 .. port[p].number - 1}
Recorded == UNION {RecordsOf(p) : p \in Ports}

BestOf(records) ==
  CHOOSE d \in records : \A e \in records \ {d} : Better(d, e, Identity[1])

\* The state that the records of the whole clock give a port that has some.
RightState(p) ==
  LET own == CopyD0(clock.own, p)
      best == BestOf(Recorded)
      bestHere == BestOf(RecordsOf(p))
      leads == Better(own, IF clock.own.clockClass < 128 THEN bestHere ELSE best, Identity[p])
      follows == best.port = p \/ Comparison(best, bestHere, Identity[p]) = -2
  IN  CASE config[p] = "M_ONLY" -> "MASTER"
        [] config[p] = "S_ONLY" -> "SLAVE"
        [] config[p] \notin {"M_ONLY", "S_ONLY"} ->
             IF leads THEN "MASTER"
             ELSE IF clock.own.clockClass < 128 THEN "PASSIVE"
             ELSE IF follows THEN "SLAVE" ELSE "MASTER"

\* bmc.c:815-822, of EBest(): "Finds the globally (for entire Boundary Clock)
\* best foreign master [...] the globally best foreign master can be found by
\* reading the best record (index: foreign_record_best) of the port with the
\* index of the returned value."
EbestIsBest ==
  at = 1 /\ clock.event /\ clock.Ebest < NumberPorts =>
    LET best == port[clock.Ebest + 1]
    IN  \A d \in Recorded : ~Better(d, best.foreign[best.best], Identity[1])

\* Nothing has changed for as long as silence takes to be noticed, and all that
\* was announced has been looked at.
Settled ==
  /\ quiet = Receipt + 1 /\ at = 1 /\ ~clock.event
  /\ \A m \in due : cable[m] \notin plugged

\* Whatever happened to masters and cables: when the clock has settled and
\* there is a master to be heard, the tables hold what the masters announce,
\* each port is in the state that they give it, and the parent is the best.
Agrees ==
  Settled /\ Live # {} =>
    /\ \A m \in Live :
         \/ [announced[m] EXCEPT !.port = cable[m]] \in RecordsOf(cable[m])
         \/ config[cable[m]] = "S_ONLY" /\ clock.parent = announced[m]
    /\ \A p \in plugged : RecordsOf(p) # {} => port[p].state = RightState(p)
    /\ \A p \in plugged :
         /\ port[p].state = "SLAVE" /\ RecordsOf(p) # {}
         /\ config[p] = "S_ONLY" \/ BestOf(Recorded).port = p
         => clock.parent = [BestOf(RecordsOf(p)) EXCEPT !.port = 0]

=============================================================================
