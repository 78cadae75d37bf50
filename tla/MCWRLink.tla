------------------------------ MODULE MCWRLink ------------------------------
(***************************************************************************)
(* WRLink for model checking, with what a comment of the code says of the  *)
(* link setup.  The values of the constants are in the .cfg files.         *)
(***************************************************************************)
EXTENDS WRLink

\* A slave in WR mode whose master has said in an announce that it left WR
\* mode, and that comes to its state decision.
SynchronizationFaultDue(n) ==
  LET p == port[n]
  IN  /\ cable /\ p.linkUP /\ ~p.doRestart
      /\ p.portState = "SLAVE" /\ p.wrMode = "WR_SLAVE" /\ p.wrPortState = "IDLE"
      /\ p.globalStateDecisionEvent
      /\ ~p.foreignWrModeON

\* SYNCHRONIZATION_FAULT (protocol.c, doState(): "mechanims to enforce WR LINK
\* SETUP"): a WR slave that finds its master out of WR mode starts the link
\* setup again.
SyncFaultRestartsLinkSetup ==
  [][\A n \in Node :
       (/\ SynchronizationFaultDue(n)
        /\ port'[n].portState # port[n].portState
           \/ port'[n].wrMode # port[n].wrMode
        /\ port'[n].linkUP)
       => port'[n].portState = "UNCALIBRATED"]_vars

=============================================================================
