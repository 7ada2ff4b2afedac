-------------------------- MODULE CommitmentAwait --------------------------
(* CommitmentManager.awaitCommitmentInsertion: a timer starts a check of the *)
(* tree every delayBetweenFetches, whether or not the checks before it have  *)
(* been answered, and each check, when it comes back, settles the promise or *)
(* counts towards the timeout.                                               *)
EXTENDS Naturals, FiniteSets

CONSTANTS
    Delay,    \* delayBetweenFetches
    Timeout,  \* timeout
    NodeMayFail, \* TRUE: a request of a check may fail
    MaxChecks \* bound: the checks ever started

ASSUME AwaitAssumption ==
    /\ Delay \in Nat \ {0} /\ Timeout \in Nat /\ MaxChecks \in Nat
    /\ NodeMayFail \in BOOLEAN

VARIABLES
    inTree,   \* the commitment is in the tree
    interval, \* the timer is running
    started,  \* how many checks were started
    checks,   \* those not yet answered: number, and whether inTree at the start
    attempts, \* attempts
    promise   \* pending, resolved or rejected

vars == <<inTree, interval, started, checks, attempts, promise>>

Check == [number : Nat, inTree : BOOLEAN]

Insert ==
    /\ ~inTree
    /\ inTree' = TRUE
    /\ UNCHANGED <<interval, started, checks, attempts, promise>>

Tick ==
    /\ interval /\ started < MaxChecks
    /\ started' = started + 1
    /\ checks' = checks \cup {[number |-> started, inTree |-> inTree]}
    /\ UNCHANGED <<inTree, interval, attempts, promise>>

(* What hasCommitment may answer: what is in the tree from before the call   *)
(* on is found, unless a request fails, which is taken for not found.        *)
Answers(c) == {found \in BOOLEAN : /\ found => inTree
                                   /\ c.inTree => found \/ NodeMayFail}

(* Mutant: a check that finds the commitment only settles at the timeout.    *)
SettleAtTimeout(found) ==
    IF promise = "pending" /\ attempts * Delay >= Timeout
    THEN IF found THEN "resolved" ELSE "rejected"
    ELSE promise

(* Mutant: the next attempt is counted before it is made.                    *)
SettleOneEarly(found) ==
    CASE promise = "pending" /\ found -> "resolved"
      [] promise = "pending" /\ ~found /\ (attempts + 1) * Delay >= Timeout -> "rejected"
      [] OTHER -> promise

(* Mutant: at the timeout the promise resolves with whatever was found.      *)
SettleUnfound(found) ==
    IF promise = "pending" /\ (found \/ attempts * Delay >= Timeout) THEN "resolved" ELSE promise

(* Resolve, else reject; what is settled stays as it is.                     *)
Settle(found) ==
    CASE promise = "pending" /\ found -> "resolved"
      [] promise = "pending" /\ ~found /\ attempts * Delay >= Timeout -> "rejected"
      [] OTHER -> promise

(* A check comes back, in any order. Found, it stops the timer; that the     *)
(* time is up does not.                                                      *)
CheckReturns(c) ==
    /\ c \in checks
    /\ \E found \in Answers(c) :
          /\ interval' = (interval /\ ~found)
          /\ promise' = Settle(found)
    /\ checks' = checks \ {c}
    /\ attempts' = attempts + 1
    /\ UNCHANGED <<inTree, started>>

Init ==
    /\ inTree \in BOOLEAN
    /\ interval = TRUE
    /\ started = 0 /\ checks = {}
    /\ attempts = 1
    /\ promise = "pending"

Next == Insert \/ Tick \/ \E c \in checks : CheckReturns(c)
Spec == Init /\ [][Next]_vars

(* The timer runs, and every check is answered or fails.                     *)
Fairness == /\ WF_vars(Tick)
            /\ \A n \in 0..MaxChecks : WF_vars(\E c \in checks : c.number = n /\ CheckReturns(c))
FairSpec == Spec /\ Fairness

-----------------------------------------------------------------------------
(* Properties.                                                               *)

(* Every variable holds values of its kind.                                  *)
TypeOK ==
    /\ inTree \in BOOLEAN /\ interval \in BOOLEAN
    /\ started \in 0..MaxChecks
    /\ checks \subseteq Check
    /\ attempts \in Nat \ {0}
    /\ promise \in {"pending", "resolved", "rejected"}

(* The promise settles once, and truly.                                      *)
Promise == INSTANCE Awaited
KeepsPromise == Promise!Spec

(* The promise is not rejected before the timeout has passed: by then the    *)
(* timer has run for as long.                                                *)
RejectedAfterTimeout == promise = "rejected" => started * Delay >= Timeout

(* The timer does not stop before the promise is settled, although checks    *)
(* overtake each other: a commitment that was found was reported.            *)
StopsOnlyWhenFound == ~interval => inTree /\ promise # "pending"

(* The caller gets its answer, however the checks overtake each other.       *)
PromiseSettles == <>(promise # "pending")
=============================================================================
