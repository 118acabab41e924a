------------------------------ MODULE MCDaemon ------------------------------
(***************************************************************************)
(* The Discord daemon for TLC: its lock and its connection, and the        *)
(* handlers of what the owner does in the channel.  The two share no       *)
(* variable, so a behaviour is one of the machine that was chosen in the   *)
(* initial state, while the other rests.                                   *)
(***************************************************************************)
EXTENDS Bot, ControlChannel

CONSTANTS a, x1, x2

VARIABLE part   \* the machine that runs

\* Two ids for /new.
MCNewIds == <<x1, x2>>

DaemonInit == part \in {"bot", "handlers"} /\ BotInit /\ Init

DaemonNext == /\ part' = part
              /\ \/ part = "bot" /\ BotNext /\ UNCHANGED vars
                 \/ part = "handlers" /\ Next /\ UNCHANGED botVars

\* BotFairness and Fairness, each of its own machine.
DaemonFairness ==
  /\ WF_botVars(part = "bot" /\ \E b \in Bots : StartBot(b))
  /\ \A b \in Bots : /\ WF_botVars(part = "bot" /\ BotStep(b))
                     /\ WF_botVars(part = "bot" /\ GatewayStep(b))
  /\ WF_botVars(part = "bot" /\ FiveMinutes)
  /\ WF_vars(part = "handlers" /\ \E e \in Events : Handle(e))
  /\ WF_vars(part = "handlers" /\ \E i \in Ids : Redraft(i))

DaemonSpec == /\ DaemonInit /\ [][DaemonNext]_<<part, botVars, vars>>
              /\ DaemonFairness

-----------------------------------------------------------------------------

\* ListensAgain of Bot: the bot comes to listen again after any death, lost
\* connection, hang or stop.
BotListens == part = "bot" => ListensAgain
=============================================================================
