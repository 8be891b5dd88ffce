--------------------------- MODULE MCBackground ---------------------------
(* What runs on without anybody asking: the change feed and its pollers, the  *)
(* boots of a container, and the audit sink behind every decision.  They      *)
(* share no variable: a behaviour is one of the three, and the others keep    *)
(* their first state.                                                         *)
EXTENDS MCChangeFeed, Boot, Trail, TLC
CONSTANTS staff, teams, op, ana
VARIABLE part   \* which of them this behaviour is of

(* Two taxonomies that are parents of each other. *)
ParentOf == staff :> teams @@ teams :> staff
SourceOf == staff :> teams @@ teams :> None
InOrder == <<staff, teams>>
Demo == <<ana>>
DemoRoles == ana :> "admin"
-----------------------------------------------------------------------------
TrailAside == sink = "postgres" /\ enabled = TRUE /\ TrailInit

BackgroundVars == <<vars, bootVars, trailVars, part>>
BackgroundInit ==
  /\ Init /\ BootInit
  /\ \/ part \in {"feed", "boot"} /\ TrailAside
     \/ part = "trail" /\ TrailInit
BackgroundNext ==
  /\ UNCHANGED part
  /\ \/ part = "feed" /\ Next /\ UNCHANGED <<bootVars, trailVars>>
     \/ part = "boot" /\ BootNext /\ UNCHANGED <<vars, trailVars>>
     \/ part = "trail" /\ TrailNext /\ UNCHANGED <<vars, bootVars>>
     \* Boots and decisions come to an end.
     \/ part # "feed" /\ UNCHANGED <<vars, bootVars, trailVars>>
\* The fairness of the three specifications, each for its own behaviours.
BackgroundFairness ==
  /\ WF_BackgroundVars(part = "feed" /\ Changes /\ UNCHANGED <<bootVars, trailVars, part>>)
  /\ \A w \in Writers : WF_BackgroundVars(part = "feed" /\ Finish(w) /\ UNCHANGED <<bootVars, trailVars, part>>)
  /\ \A b \in Machines :
       /\ SF_BackgroundVars(part = "boot" /\ LockLedger(b) /\ UNCHANGED <<vars, trailVars, part>>)
       /\ WF_BackgroundVars(part = "boot" /\ (BootStepOf(b) \/ GenerateStep(b)) /\ UNCHANGED <<vars, trailVars, part>>)
  /\ \A d \in Decisions : WF_BackgroundVars(part = "trail" /\ DecisionStep(d) /\ UNCHANGED <<vars, bootVars, part>>)
BackgroundSpec == BackgroundInit /\ [][BackgroundNext]_BackgroundVars /\ BackgroundFairness

\* What runs on comes to its end: every boot serves or gives up, every decision is answered
\* unless its server dies.
WorkEnds == BootsEnd /\ DecisionsEnd
=============================================================================
