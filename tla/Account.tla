------------------------------ MODULE Account ------------------------------
(* What the client promises of a private account: a history of transactions, *)
(* one for each nonce, in which a send finds something to spend and a top-up *)
(* finds room among the commitments that one send can spend.                 *)
EXTENDS Naturals, Sequences, FiniteSets

CONSTANTS
    Tokens,   \* the token types
    SendArity \* the number of commitments that one send can spend

VARIABLE history

(* A send spends every commitment of its token and leaves one.               *)
Commitments(token) ==
    {i \in 1..Len(history) :
        /\ history[i].token = token
        /\ \A j \in i + 1..Len(history) : history[j].token = token => history[j].txType = "TOPUP"}

Extend(txType, token) ==
    history' = Append(history, [nonce |-> Len(history), txType |-> txType, token |-> token])

TopUp(token) ==
    /\ Cardinality(Commitments(token)) < SendArity
    /\ Extend("TOPUP", token)

Send(token) ==
    /\ Commitments(token) # {}
    /\ Extend("SEND", token)

Init == history = <<>>
Next == \E token \in Tokens : TopUp(token) \/ Send(token)
Spec == Init /\ [][Next]_history
=============================================================================
