--------------------------- MODULE ToolTranscript ---------------------------
(***************************************************************************)
(* What an OpenAI-compatible provider requires of a conversation with      *)
(* tools, and what a host may rely on: the model is asked again only after *)
(* every call of its last turn has got its one result, a run pauses only   *)
(* on calls that have none, and a run that stopped stays stopped.          *)
(***************************************************************************)
EXTENDS Naturals

CONSTANT Calls

VARIABLES mode,      \* "asking" the model, working on "tools", "paused", "stopped"
          proposed,  \* calls some assistant turn named
          results    \* how many results each call has

Open == {c \in proposed : results[c] = 0}

Init ==
    /\ mode = "asking"
    /\ proposed = {}
    /\ results = [c \in Calls |-> 0]

\* The model proposes new calls.
Propose ==
    /\ mode = "asking"
    /\ mode' = "tools"
    /\ \E batch \in (SUBSET (Calls \ proposed)) \ {{}} : proposed' = proposed \cup batch
    /\ UNCHANGED results

\* One open call gets its result.
Settle ==
    /\ mode = "tools"
    /\ \E c \in Open : results' = [results EXCEPT ![c] = 1]
    /\ UNCHANGED <<mode, proposed>>

Turns(from, to) == mode = from /\ mode' = to /\ UNCHANGED <<proposed, results>>

Pause  == Open # {} /\ Turns("tools", "paused")

Resume == Turns("paused", "tools")

\* Every call is answered: the model speaks again.
Reply  == Open = {} /\ Turns("tools", "asking")

\* A run ends in the middle of anything but a pause.
Stop   == Turns("asking", "stopped") \/ Turns("tools", "stopped")

Next == Propose \/ Settle \/ Pause \/ Resume \/ Reply \/ Stop

Spec == Init /\ [][Next]_<<mode, proposed, results>>
=============================================================================
