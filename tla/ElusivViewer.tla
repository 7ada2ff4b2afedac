---------------------------- MODULE ElusivViewer ----------------------------
(* How much has gone through elusiv in the last seconds? The viewer pages    *)
(* through the Solana transactions of the fee collector, from the newest to  *)
(* the oldest, until they are too old, and sleeps between pages, so that     *)
(* time passes and transactions land meanwhile. A token that is not LAMPORTS *)
(* has a fee collector account of its own; those of LAMPORTS are all of the  *)
(* fee collector but those of the other tokens. A transaction is its place   *)
(* in the order on chain, and an array of them, newest first, is a set.      *)
(* A failed transaction has a signature like any other. Signatures are listed*)
(* before they are final, transactions are only told when they are.          *)
EXTENDS Integers, Sequences, FiniteSets, FiniteSetsExt

CONSTANTS
    Tokens,    \* the token types
    All,       \* stands for no token type
    Nobody,    \* no query
    Kinds,     \* what a transaction may do
    PoolChange(_, _, _), \* the program: how a kind of a token moves the pool's balance of a token
    PageSize,  \* signatures in an answer of the node
    BatchSize, \* transactions fetched at once
    Span,      \* timeSec
    MaxTime,   \* bound: the clock
    MaxSigs,   \* bound: transactions of the fee collector
    MaxFailed  \* bound: those that fail

LAMPORTS == "LAMPORTS"
OtherTokens == Tokens \ {LAMPORTS}
Queries == Tokens \cup {All}

ASSUME ViewerAssumption ==
    /\ LAMPORTS \in Tokens /\ All \notin Tokens /\ Nobody \notin Queries
    /\ IsFiniteSet(Tokens)
    /\ Kinds \subseteq {"topup", "init", "finalize"}
    /\ \A t, u \in Tokens, kind \in Kinds : PoolChange(t, u, kind) \in Int
    /\ {PageSize, BatchSize} \subseteq Nat \ {0}
    /\ {Span, MaxTime, MaxSigs, MaxFailed} \subseteq Nat

VARIABLES
    time,    \* in seconds
    sigs,    \* the transactions of the fee collector, in the order on chain
    final,   \* how many of them are finalized
    query,   \* the token type asked for
    since,   \* how many were finalized when it was called
    fetches, \* where the paging for each token type stands
    phase,   \* of the call: signatures, transactions or done
    result,  \* the signatures it found
    i,       \* how many of their transactions it has asked for
    told     \* those it was told

chain == <<time, sigs, final>>
asked == <<query, since>>
vars == <<chain, asked, fetches, phase, result, i, told>>

-----------------------------------------------------------------------------
(* getConfirmedSignaturesForAddress2: the newest of an address that are      *)
(* older than one.                                                           *)
AtAddress(q) == {k \in DOMAIN sigs : q \in {All, LAMPORTS} \/ sigs[k].tokenType = q}
Newest(n, txs) == {k \in txs : Cardinality({l \in txs : l > k}) < n}
Oldest(txs) == CHOOSE k \in txs : \A l \in txs : k <= l

PageBefore(q, before) == Newest(PageSize, {k \in AtAddress(q) : k < before})

Idle == [pc |-> "idle", until |-> 0, before |-> 0, first |-> 0, total |-> {}, length |-> 0]

(* Before the first page oldestSig is undefined, and any signature is older. *)
Undefined == MaxSigs + 1
Started == [pc |-> "paging", until |-> time - Span, before |-> Undefined, first |-> 0, total |-> {}, length |-> 0]

Recent(k, until) == sigs[k].blockTime > until

(* Mutant: an empty page is asked for again.                                 *)
FurtherAlways(page, filtered) == filtered = page

(* The oldest of the page was recent, so there may be more.                  *)
Further(page, filtered) == filtered # {} /\ Oldest(filtered) = Oldest(page)

-----------------------------------------------------------------------------
(* A call, which begins with getElusivSigsLastTime.                          *)
Ask(q) ==
    /\ query = Nobody
    /\ query' = q /\ since' = final /\ phase' = "signatures"
    /\ fetches' = [fetches EXCEPT ![q] = Started]
    /\ UNCHANGED <<chain, result, i, told>>

(* Mutant: the oldest of a page is asked for again.                          *)
NextBeforeAgain(before, page) == IF page = {} THEN before ELSE Oldest(page) + 1

NextBefore(before, page) == IF page = {} THEN before ELSE Oldest(page)

(* One turn of the loop, and a sleep.                                        *)
Page(q) ==
    LET page == PageBefore(q, fetches[q].before)
        filtered == {k \in page : Recent(k, fetches[q].until)}
    IN /\ fetches[q].pc = "paging"
       /\ fetches' = [fetches EXCEPT
              ![q].before = NextBefore(@, page),
              ![q].first = IF fetches[q].before = Undefined THEN Len(sigs) ELSE @,
              ![q].total = @ \cup filtered,
              ![q].length = @ + Cardinality(filtered),
              ![q].pc = IF Further(page, filtered) THEN "paging" ELSE "done"]
       /\ UNCHANGED <<chain, asked, phase, result, i, told>>

(* Those of the other tokens are fetched once those of LAMPORTS are there,   *)
(* all at once, with a cutoff of their own.                                  *)
FetchOtherTokens ==
    /\ query = LAMPORTS /\ fetches[LAMPORTS].pc = "done"
    /\ OtherTokens # {} /\ \A t \in OtherTokens : fetches[t].pc = "idle"
    /\ fetches' = [q \in Queries |-> IF q \in OtherTokens THEN Started ELSE fetches[q]]
    /\ UNCHANGED <<chain, asked, phase, result, i, told>>

WithoutOtherTokens(txs) == txs \ UNION {fetches[t].total : t \in OtherTokens}

Fetched ==
    /\ phase = "signatures" /\ fetches[query].pc = "done"
    /\ query = LAMPORTS => \A t \in OtherTokens : fetches[t].pc = "done"
    /\ phase' = "transactions"
    /\ result' = IF query = LAMPORTS THEN WithoutOtherTokens(fetches[query].total)
                 ELSE fetches[query].total
    /\ UNCHANGED <<chain, asked, fetches, i, told>>

-----------------------------------------------------------------------------
(* What is told of the signatures. The transactions are asked for at         *)
(* commitment finalized, and the answer for one that is not is null. The     *)
(* volume asks in batches; the count asks for all at once, which is as if    *)
(* nothing became final between the batches.                                 *)
Slice(from, to) == Newest(to, result) \ Newest(from, result)

GetTransactions ==
    /\ phase = "transactions"
    /\ IF i < Cardinality(result)
       THEN /\ i' = i + BatchSize /\ told' = told \cup {k \in Slice(i, i + BatchSize) : k <= final}
            /\ phase' = phase
       ELSE /\ phase' = "done" /\ UNCHANGED <<i, told>>
    /\ UNCHANGED <<chain, asked, fetches, result>>

(* Mutant: a send is counted twice.                                          *)
CountedBoth(k) == TRUE

(* A top-up uses the fee collector once, a send when it is initialised and   *)
(* when it is finalized. Nobody asks whether a transaction failed.           *)
Counted(k) == sigs[k].kind \in {"topup", "init"}
TxsCount == Cardinality({k \in told : Counted(k)})

EstimateOf(length) == (2 * length + 2) \div 3

(* postAmount - preAmount: a failed transaction leaves the pool as it was.   *)
Change(k) == IF sigs[k].err THEN 0 ELSE PoolChange(query, sigs[k].tokenType, sigs[k].kind)

Abs(n) == IF n < 0 THEN -n ELSE n
Volume(txs) == MapThenSumSet(LAMBDA k : Abs(Change(k)), txs)

Return ==
    /\ phase = "done"
    /\ query' = Nobody /\ phase' = "idle" /\ result' = {} /\ i' = 0 /\ told' = {}
    /\ since' = 0
    /\ fetches' = [q \in Queries |-> Idle]
    /\ UNCHANGED chain

-----------------------------------------------------------------------------
(* The chain. The time of a block is not before that of the one before, and  *)
(* blocks are finalized in their order. Once a call has the signatures it    *)
(* looks neither at the clock nor at new ones, and both stand still.         *)
Looking == phase \in {"idle", "signatures"}

Landed(tokenType, kind) ==
    Cardinality({k \in DOMAIN sigs : sigs[k].tokenType = tokenType /\ sigs[k].kind = kind /\ ~sigs[k].err})

Land(tokenType, kind, err) ==
    /\ Looking /\ Len(sigs) < MaxSigs
    /\ err => Cardinality({k \in DOMAIN sigs : sigs[k].err}) < MaxFailed
    /\ kind = "finalize" => Landed(tokenType, "finalize") < Landed(tokenType, "init")
    /\ sigs' = Append(sigs, [tokenType |-> tokenType, kind |-> kind, err |-> err, blockTime |-> time])
    /\ UNCHANGED <<time, final, asked, fetches, phase, result, i, told>>

Finalize ==
    /\ final < Len(sigs)
    /\ final' = final + 1
    /\ UNCHANGED <<time, sigs, asked, fetches, phase, result, i, told>>

Tick ==
    /\ Looking /\ time < MaxTime
    /\ time' = time + 1
    /\ UNCHANGED <<sigs, final, asked, fetches, phase, result, i, told>>

Init ==
    /\ time = 1 /\ sigs = <<>> /\ final = 0
    /\ query = Nobody /\ since = 0
    /\ phase = "idle" /\ result = {} /\ i = 0 /\ told = {}
    /\ fetches = [q \in Queries |-> Idle]

View == (\E q \in Queries : Page(q)) \/ FetchOtherTokens \/ Fetched \/ GetTransactions

Next ==
    \/ \E tokenType \in Tokens, kind \in Kinds, err \in BOOLEAN : Land(tokenType, kind, err)
    \/ Finalize \/ Tick \/ Return
    \/ \E q \in Queries : Ask(q)
    \/ View

Spec == Init /\ [][Next]_vars

(* The node answers, and a sleep ends.                                       *)
FairSpec == Spec /\ WF_vars(View)

-----------------------------------------------------------------------------
(* What had landed when a fetch got its first page and was not too old then. *)
Window(q) == {k \in AtAddress(q) : k <= fetches[q].first /\ Recent(k, fetches[q].until)}

(* However many pages it takes and whatever lands between them, a fetch has  *)
(* exactly what was in the window at its first page, each once.               *)
FetchExact ==
    \A q \in Queries : fetches[q].pc = "done" =>
        /\ fetches[q].total = Window(q)
        /\ fetches[q].length = Cardinality(fetches[q].total)

(* What a call is about. For LAMPORTS that is the window without those of    *)
(* the other tokens, but what has left their windows, which are taken later, *)
(* is still in.                                                              *)
Wanted == IF query = LAMPORTS THEN Window(LAMPORTS) \ UNION {Window(t) : t \in OtherTokens} ELSE Window(query)

StartsOf(txs) == Cardinality({k \in txs : sigs[k].kind \in {"topup", "init"}})

(* What is told counts every signature of the window that starts a top-up or *)
(* a send once, the failed ones too, and every movement of the pool once, as *)
(* far as they are final: all that were when the call was made are in, and   *)
(* those that became final later may be. The estimate is off by a third at   *)
(* most, if no send is cut in two by the window.                             *)
ReportsWithin ==
    phase = "done" =>
        LET settled == {k \in Wanted : k <= since}
            estimate == EstimateOf(fetches[query].length)
            finals == Cardinality({k \in Window(query) : sigs[k].kind = "finalize"})
        IN /\ StartsOf(settled) <= TxsCount /\ TxsCount <= StartsOf(Wanted)
           /\ query \in Tokens => Volume(settled) <= Volume(told) /\ Volume(told) <= Volume(Wanted)
           /\ query # LAMPORTS /\ 2 * finals = Cardinality({k \in Window(query) : sigs[k].kind # "topup"}) =>
                  2 * StartsOf(Wanted) <= 3 * estimate /\ 3 * estimate <= 4 * StartsOf(Wanted) + 2

(* "If you truly need the *EXACT* amount": of what was final before the call *)
(* was made, the top-ups and sends of the token. The code counts failed      *)
(* transactions as well, and under LAMPORTS what has just left the window of *)
(* its token.                                                                *)
CountExact ==
    phase = "done" /\ query \in Tokens /\ fetches[query].first <= since =>
        TxsCount = StartsOf({k \in Window(query) : sigs[k].tokenType = query /\ ~sigs[k].err})

(* The pages come to an end while transactions go on landing.                *)
CallsEnd == phase = "signatures" ~> phase = "done"
=============================================================================
