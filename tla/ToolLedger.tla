----------------------------- MODULE ToolLedger -----------------------------
(***************************************************************************)
(* What the assistant promises a user about each tool call of a task: the  *)
(* tool runs at most once, only after the row that says so was written,    *)
(* and, when the policy asks, only after the user said yes; a decision on  *)
(* a card is final; and a call that was refused stays refused.             *)
(***************************************************************************)
EXTENDS Naturals

CONSTANTS Calls, AskCalls, DenyCalls

VARIABLES card,     \* the approval card of each call
          row,      \* the invocation row of each call
          effects   \* how often its tool ran

Cards == {"none", "pending", "approved", "rejected", "cancelled"}
Rows  == {"none", "started", "completed", "failed"}

Init ==
    /\ card = [c \in Calls |-> "none"]
    /\ row = [c \in Calls |-> "none"]
    /\ effects = [c \in Calls |-> 0]

Stays(c) == card'[c] = card[c] /\ row'[c] = row[c] /\ effects'[c] = effects[c]

\* The user is asked about a call that nothing was done about.
Asks(c) ==
    /\ c \in AskCalls
    /\ card[c] = "none" /\ card'[c] = "pending"
    /\ row[c] = "none" /\ row'[c] = "none"
    /\ effects'[c] = effects[c]

\* The user decides, or the card is withdrawn; either is final.
Decides(c) ==
    /\ card[c] = "pending" /\ card'[c] \in {"approved", "rejected", "cancelled"}
    /\ row[c] = "none" /\ row'[c] = "none"
    /\ effects'[c] = effects[c]

\* A permitted call gets its row.
Starts(c) ==
    /\ c \notin DenyCalls
    /\ c \in AskCalls => card[c] = "approved"
    /\ card'[c] = card[c]
    /\ row[c] = "none" /\ row'[c] = "started"
    /\ effects'[c] = effects[c]

\* A refused call gets a row that says so.
Refuses(c) ==
    /\ c \in DenyCalls \/ card[c] = "rejected"
    /\ card'[c] = card[c]
    /\ row[c] = "none" /\ row'[c] = "failed"
    /\ effects'[c] = effects[c]

\* The tool runs: once, and the row may or may not come to say so.
Runs(c) ==
    /\ card'[c] = card[c]
    /\ row[c] = "started" /\ row'[c] \in {"started", "completed"}
    /\ effects[c] = 0 /\ effects'[c] = 1

Fails(c) ==
    /\ card'[c] = card[c]
    /\ row[c] = "started" /\ row'[c] = "failed"
    /\ effects'[c] = effects[c]

Moves(c) == Asks(c) \/ Decides(c) \/ Starts(c) \/ Refuses(c) \/ Runs(c) \/ Fails(c)

\* One step of the task may move several calls.
Next ==
    /\ card' \in [Calls -> Cards]
    /\ row' \in [Calls -> Rows]
    /\ effects' \in [Calls -> Nat]
    /\ \A c \in Calls : Stays(c) \/ Moves(c)

Spec == Init /\ [][Next]_<<card, row, effects>>
=============================================================================
