----------------------------- MODULE MCRouters ------------------------------
(***************************************************************************)
(* The chaos router, with packets of the length in the configuration; and  *)
(* the event-driven router, of two inputs and outputs and of two VCs, with *)
(* and without cut-through.  While one runs the others stay as they begin. *)
(***************************************************************************)
EXTENDS ChaosRouter

VARIABLES
  part,                                                                            \* which it is
  vct, upstream, buf, goal, arrivals, eventOutput, match, downstream, expects, errors, intruders \* as in EventRouter

eventVars == <<vct, upstream, buf, goal, arrivals, eventOutput, match, downstream, expects, errors, intruders>>
routersVars == <<part, eventVars, vars>>

\* No packet is too long for cut-through; one is longer than the room on a VC; one takes longer
\* than the head's credit.
Crossing == INSTANCE EventRouter WITH
  Inputs <- {0, 1}, Outputs <- {0, 1}, VCs <- {0}, VcBufSize <- 2, Modes <- BOOLEAN, PacketSizes <- {1, 2},
  CreditTrip <- 2, Terminals <- {}, output <- eventOutput
Lanes == INSTANCE EventRouter WITH
  Inputs <- {0}, Outputs <- {0}, VCs <- {0, 1}, VcBufSize <- 2, Modes <- BOOLEAN, PacketSizes <- {1, 3},
  CreditTrip <- 3, Terminals <- {}, output <- eventOutput
Overtaking == INSTANCE EventRouter WITH
  Inputs <- {0}, Outputs <- {0}, VCs <- {0}, VcBufSize <- 4, Modes <- {TRUE}, PacketSizes <- {1, 4},
  CreditTrip <- 3, Terminals <- {}, output <- eventOutput

ASSUME RoutersAssumption ==
  /\ Crossing!EventRouterAssumption /\ Lanes!EventRouterAssumption /\ Overtaking!EventRouterAssumption
  /\ ChaosRouterAssumption

NoEvent ==
  /\ vct = <<>> /\ upstream = <<>> /\ buf = <<>> /\ goal = <<>> /\ arrivals = <<>> /\ eventOutput = <<>>
  /\ match = <<>> /\ downstream = <<>> /\ expects = <<>> /\ errors = <<>> /\ intruders = <<>>

RoutersInit ==
  /\ \/ part = "crossing" /\ Crossing!Init
     \/ part = "lanes" /\ Lanes!Init
     \/ part = "overtaking" /\ Overtaking!Init
     \/ part = "chaos" /\ NoEvent
  /\ Init

RoutersNext ==
  /\ \/ part = "crossing" /\ Crossing!Next /\ UNCHANGED vars
     \/ part = "lanes" /\ Lanes!Next /\ UNCHANGED vars
     \/ part = "overtaking" /\ Overtaking!Next /\ UNCHANGED vars
     \/ part = "chaos" /\ Step /\ UNCHANGED eventVars
  /\ UNCHANGED part

RoutersSpec == RoutersInit /\ [][RoutersNext]_routersVars

-----------------------------------------------------------------------------
\* The event-driven router calls Error() for no other reason than a packet too long for
\* cut-through.  Up to then it knows every flit that it has once, and every credit, and its output
\* VCs are free again after the last credit of a packet.
EventsAccounted ==
  /\ part = "crossing" =>
       Crossing!ErrorsForeseen /\ (errors = {} => Crossing!EventsAccounted /\ Crossing!RecycledAfterTail)
  /\ part = "lanes" =>
       Lanes!ErrorsForeseen /\ (errors = {} => Lanes!EventsAccounted /\ Lanes!RecycledAfterTail)
  /\ part = "overtaking" =>
       Overtaking!ErrorsForeseen /\ (errors = {} => Overtaking!EventsAccounted /\ Overtaking!RecycledAfterTail)

=============================================================================
