------------------------------ MODULE Request ------------------------------
(***************************************************************************)
(* One call of DiscordApi: sendMessage, or an attachment, over _request,   *)
(* which answers a lost connection, a 5xx and a 429 by asking again.       *)
(* Discord may have done what was asked although the answer does not say   *)
(* so, and nothing in a request tells it that it is a repetition.          *)
(***************************************************************************)
EXTENDS Integers

CONSTANT MaxRetries   \* maxRetries, 4 in the program

VARIABLES attempt,    \* requests made so far
          outcome,    \* what the caller has: nothing yet, a message, an error
          accepted,   \* messages Discord has posted for this call
          unheard     \* history: of these, the ones no answer told of

requestVars == <<attempt, outcome, accepted, unheard>>

\* Every answer uses up one attempt, also a 429 that names its wait; after the
\* last one the call throws.
AskAgain == /\ attempt' = attempt + 1
            /\ outcome' = IF attempt < MaxRetries THEN "pending" ELSE "error"

\* Seeded fault: a success whose body cannot be read is asked for again.
Posted_Unreadable ==
  /\ accepted' = accepted + 1
  /\ \/ outcome' = "message" /\ attempt' = attempt + 1
     \/ AskAgain
  /\ UNCHANGED unheard

\* res.ok: the message, or, when the body cannot be read, null, whose id the
\* caller then fails to read.
Posted == /\ accepted' = accepted + 1
          /\ attempt' = attempt + 1
          /\ outcome' \in {"message", "error"}
          /\ UNCHANGED unheard

\* 429 asks again, any other 4xx is thrown at once.
Answer(kind) ==
  /\ IF kind = "again" THEN AskAgain ELSE attempt' = attempt + 1 /\ outcome' = kind
  /\ UNCHANGED <<accepted, unheard>>

\* The connection broke, or a 5xx came: before or after the message was posted.
Broken(after) ==
  /\ AskAgain
  /\ accepted' = IF after THEN accepted + 1 ELSE accepted
  /\ unheard' = IF after THEN unheard + 1 ELSE unheard

RequestInit == attempt = 0 /\ outcome = "pending" /\ accepted = 0 /\ unheard = 0

RequestStep == /\ outcome = "pending"
               /\ \/ Posted
                  \/ \E kind \in {"again", "error"} : Answer(kind)
                  \/ \E after \in BOOLEAN : Broken(after)

RequestSpec == RequestInit /\ [][RequestStep]_requestVars

-----------------------------------------------------------------------------

\* A call posts its message once, and once more only for every answer that got
\* lost on the way; a call that returns a message has posted it (_request).
PostedOncePerLostAnswer ==
  /\ accepted <= unheard + 1
  /\ outcome = "message" => accepted = unheard + 1
=============================================================================
