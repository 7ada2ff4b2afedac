-------------------------- MODULE ResponsesProofs --------------------------
(* Proofs about Responses, for any number of sends, top-ups, verification    *)
(* accounts and failed transactions.                                         *)
EXTENDS Responses, FiniteSetTheorems, TLAPS

StoreOf(tx, topUp) == tx.ixs = StoreIxs(topUp)
InitOf(tx, send, ver) == tx.ixs = InitIxs(send, ver)
FinalizeOf(tx, send, ver) == tx.ixs = FinalizeIxs(send, ver)

-----------------------------------------------------------------------------
(* What the parser finds in the three kinds of transactions.                 *)
LEMMA StoreHas ==
    ASSUME NEW tx, NEW topUp, StoreOf(tx, topUp)
    PROVE  /\ Has(tx, "store") /\ ~Has(tx, "init") /\ ~Has(tx, "finalize")
           /\ Get(tx, "store") = Ix("store", topUp, None)
           /\ Len(tx.ixs) = 4
           /\ tx.ixs[3] = Ix("store", topUp, None) /\ tx.ixs[4] = Ix("compute", topUp, None)
<1>1. /\ DOMAIN tx.ixs = 1..4 /\ Len(tx.ixs) = 4
      /\ tx.ixs[1].code = "budget" /\ tx.ixs[2].code = "budget"
      /\ tx.ixs[3] = Ix("store", topUp, None) /\ tx.ixs[3].code = "store"
      /\ tx.ixs[4] = Ix("compute", topUp, None) /\ tx.ixs[4].code = "compute"
  BY DEF StoreOf, StoreIxs, Ix, Budget
<1>2. \A k \in DOMAIN tx.ixs : k = 1 \/ k = 2 \/ k = 3 \/ k = 4
  BY <1>1
<1>3. \A k \in DOMAIN tx.ixs : IsIdentifierIx(tx.ixs[k]) <=> k = 3
  BY <1>1, <1>2 DEF IsIdentifierIx, IsElusivIx
<1>4. 3 \in DOMAIN tx.ixs /\ \A l \in 1..(3 - 1) : l \in DOMAIN tx.ixs /\ l # 3
  BY <1>1
<1>5. Has(tx, "store") /\ ~Has(tx, "init") /\ ~Has(tx, "finalize")
  <2> HIDE DEF IsIdentifierIx
  <2> QED BY <1>1, <1>3, <1>4 DEF Has
<1>6. Get(tx, "store") = tx.ixs[3]
  BY <1>1, <1>3, <1>4 DEF Get
<1> QED BY <1>1, <1>5, <1>6

LEMMA StoreGet ==
    ASSUME NEW tx, NEW topUp, StoreOf(tx, topUp)
    PROVE  Has(tx, "store") /\ ~Has(tx, "init") /\ ~Has(tx, "finalize") /\ Get(tx, "store").of = topUp
<1>1. Ix("store", topUp, None).of = topUp
  BY DEF Ix
<1> QED BY <1>1, StoreHas, Zenon

LEMMA InitHas ==
    ASSUME NEW tx, NEW send, NEW ver, InitOf(tx, send, ver)
    PROVE  /\ Has(tx, "init") /\ ~Has(tx, "store") /\ ~Has(tx, "finalize")
           /\ Get(tx, "init") = Ix("init", send, ver)
<1>1. /\ DOMAIN tx.ixs = 1..2
      /\ tx.ixs[1].code = "budget"
      /\ tx.ixs[2] = Ix("init", send, ver) /\ tx.ixs[2].code = "init"
  BY DEF InitOf, InitIxs, Ix, Budget
<1>2. \A k \in DOMAIN tx.ixs : k = 1 \/ k = 2
  BY <1>1
<1>3. Has(tx, "init") /\ ~Has(tx, "store") /\ ~Has(tx, "finalize")
  BY <1>1, <1>2 DEF Has, IsIdentifierIx, IsElusivIx
<1>4. \A k \in DOMAIN tx.ixs : IsIdentifierIx(tx.ixs[k]) /\ tx.ixs[k].code = "init" <=> k = 2
  BY <1>1, <1>2 DEF IsIdentifierIx, IsElusivIx
<1>5. 2 \in DOMAIN tx.ixs /\ \A l \in 1..1 : l \in DOMAIN tx.ixs /\ l # 2
  BY <1>1
<1>6. Get(tx, "init") = tx.ixs[2]
  BY <1>4, <1>5 DEF Get
<1> QED BY <1>1, <1>3, <1>6

LEMMA FinalizeHas ==
    ASSUME NEW tx, NEW send, NEW ver, FinalizeOf(tx, send, ver)
    PROVE  /\ Has(tx, "finalize") /\ ~Has(tx, "store") /\ ~Has(tx, "init")
           /\ Get(tx, "finalize") = Ix("finalize", send, ver)
<1>1. /\ DOMAIN tx.ixs = 1..2
      /\ tx.ixs[1] = Ix("finalize", send, ver) /\ tx.ixs[1].code = "finalize"
      /\ tx.ixs[2].code = "transfer"
  BY DEF FinalizeOf, FinalizeIxs, Ix
<1>2. \A k \in DOMAIN tx.ixs : k = 1 \/ k = 2
  BY <1>1
<1>3. Has(tx, "finalize") /\ ~Has(tx, "store") /\ ~Has(tx, "init")
  BY <1>1, <1>2 DEF Has, IsIdentifierIx, IsElusivIx
<1>4. \A k \in DOMAIN tx.ixs : IsIdentifierIx(tx.ixs[k]) /\ tx.ixs[k].code = "finalize" <=> k = 1
  BY <1>1, <1>2 DEF IsIdentifierIx, IsElusivIx
<1>5. 1 \in DOMAIN tx.ixs /\ \A l \in 1..0 : FALSE
  BY <1>1
<1>6. Get(tx, "finalize") = tx.ixs[1]
  BY <1>4, <1>5 DEF Get
<1> QED BY <1>1, <1>3, <1>6
-----------------------------------------------------------------------------
(* The inductive invariant. Its heart are FinalizedOwn and InUse: the newest *)
(* init of a verification account that is older than a finalize, or that is  *)
(* newest now, is the one of the send that has the account.                  *)
Formed(tx) ==
    /\ tx.err \in BOOLEAN /\ tx.cpis \in {0, 5, 6}
    /\ \/ \E topUp \in TopUps : StoreOf(tx, topUp) /\ tx.cpis = IF topUp \in InTokens THEN 6 ELSE 5
       \/ \E send \in Sends, ver \in Accounts : InitOf(tx, send, ver) \/ FinalizeOf(tx, send, ver)

Ordered(txs, next) ==
    /\ \A tx \in txs : Formed(tx) /\ tx.sig \in 1..(next - 1)
    /\ \A t, u \in txs : t.sig = u.sig => t = u

OwnInit(txs, u, send, ver, before) ==
    /\ u \in txs /\ InitOf(u, send, ver) /\ u.sig < before
    /\ \A w \in txs : \A other \in Sends : InitOf(w, other, ver) /\ w.sig < before => w.sig <= u.sig

FinalizedOwn(txs) ==
    \A t \in txs : \A send \in Sends, ver \in Accounts :
        FinalizeOf(t, send, ver) => \E u : OwnInit(txs, u, send, ver, t.sig)

InUse(txs) ==
    \A ver \in Accounts : account[ver] # None => \E u : OwnInit(txs, u, account[ver], ver, slot)

Once(txs) ==
    /\ \A t, u \in txs : \A topUp \in TopUps : StoreOf(t, topUp) /\ StoreOf(u, topUp) => t = u
    /\ \A t, u \in txs : \A send \in Sends, v, w \in Accounts :
           \/ InitOf(t, send, v) /\ InitOf(u, send, w)
           \/ FinalizeOf(t, send, v) /\ FinalizeOf(u, send, w)
           => t = u

ResponseInv ==
    /\ slot \in Nat \ {0} /\ account \in [Accounts -> Sends \cup {None}]
    /\ Ordered(chain, slot)
    /\ FinalizedOwn(Response)
    /\ InUse(Response)
    /\ Once(Response)

(* A formed transaction has what its form has.                               *)
LEMMA FormedHas ==
    ASSUME NEW tx, Formed(tx)
    PROVE  /\ Has(tx, "store") => \E topUp \in TopUps : /\ StoreOf(tx, topUp)
                                                       /\ tx.cpis = IF topUp \in InTokens THEN 6 ELSE 5
           /\ Has(tx, "init") => \E send \in Sends, ver \in Accounts : InitOf(tx, send, ver)
           /\ Has(tx, "finalize") => \E send \in Sends, ver \in Accounts : FinalizeOf(tx, send, ver)
<1>1. CASE \E topUp \in TopUps : StoreOf(tx, topUp) /\ tx.cpis = IF topUp \in InTokens THEN 6 ELSE 5
  BY <1>1, StoreHas
<1>2. CASE \E send \in Sends, ver \in Accounts : InitOf(tx, send, ver)
  BY <1>2, InitHas
<1>3. CASE \E send \in Sends, ver \in Accounts : FinalizeOf(tx, send, ver)
  BY <1>3, FinalizeHas
<1> QED BY <1>1, <1>2, <1>3 DEF Formed

(* A transaction that lands is newer than all before.                        *)
LEMMA LandKeepsOrder ==
    ASSUME NEW txs, NEW next \in Nat \ {0}, Ordered(txs, next), NEW tx, Formed(tx), tx.sig = next
    PROVE  Ordered(txs \cup {tx}, next + 1)
<1>1. \A t \in txs : t.sig \in 1..(next - 1) /\ t.sig \in 1..((next + 1) - 1) /\ t.sig # tx.sig
  BY DEF Ordered
<1>2. tx.sig \in 1..((next + 1) - 1)
  OBVIOUS
<1> QED BY <1>1, <1>2 DEF Ordered

LEMMA LandKeepsOwn ==
    ASSUME NEW txs, NEW next \in Nat \ {0}, Ordered(txs, next), NEW tx, tx.sig = next,
           NEW u, NEW send, NEW ver, NEW before \in 1..next, OwnInit(txs, u, send, ver, before)
    PROVE  OwnInit(txs \cup {tx}, u, send, ver, before)
BY DEF OwnInit

(* That no later init takes the account in between: the account is in use.   *)
LEMMA LandKeepsFinalized ==
    ASSUME NEW txs, NEW next \in Nat \ {0}, Ordered(txs, next), FinalizedOwn(txs), NEW tx, tx.sig = next,
           \A send \in Sends, ver \in Accounts :
               FinalizeOf(tx, send, ver) => \E u : OwnInit(txs, u, send, ver, next)
    PROVE  FinalizedOwn(txs \cup {tx})
<1> SUFFICES ASSUME NEW t \in txs \cup {tx}, NEW send \in Sends, NEW ver \in Accounts, FinalizeOf(t, send, ver)
             PROVE  \E u : OwnInit(txs \cup {tx}, u, send, ver, t.sig)
  BY DEF FinalizedOwn
<1>1. CASE t \in txs
  <2>1. PICK u : OwnInit(txs, u, send, ver, t.sig)
    BY <1>1 DEF FinalizedOwn
  <2>2. t.sig \in 1..next
    BY <1>1 DEF Ordered
  <2> QED BY <2>1, <2>2, LandKeepsOwn
<1>2. CASE t = tx
  <2>1. PICK u : OwnInit(txs, u, send, ver, next)
    BY <1>2
  <2>2. next \in 1..next
    OBVIOUS
  <2> QED BY <1>2, <2>1, <2>2, LandKeepsOwn
<1> QED BY <1>1, <1>2

LEMMA LandKeepsInUse ==
    ASSUME NEW txs, NEW next \in Nat \ {0}, Ordered(txs, next), NEW tx, tx.sig = next,
           NEW u, NEW send, NEW ver, OwnInit(txs, u, send, ver, next),
           \A other \in Sends : ~InitOf(tx, other, ver)
    PROVE  OwnInit(txs \cup {tx}, u, send, ver, next + 1)
<1>1. \A w \in txs : w.sig \in 1..(next - 1)
  BY DEF Ordered
<1> QED BY <1>1 DEF OwnInit

LEMMA LandKeepsOnce ==
    ASSUME NEW txs, Once(txs), NEW tx,
           \A t \in txs : \A topUp \in TopUps : ~(StoreOf(t, topUp) /\ StoreOf(tx, topUp)),
           \A t \in txs : \A send \in Sends, v, w \in Accounts :
               ~(InitOf(t, send, v) /\ InitOf(tx, send, w)) /\ ~(FinalizeOf(t, send, v) /\ FinalizeOf(tx, send, w))
    PROVE  Once(txs \cup {tx})
BY DEF Once

LEMMA ResponseOrdered ==
    ASSUME Ordered(chain, slot) PROVE Ordered(Response, slot)
BY DEF Ordered, Response

LEMMA LandedIs ==
    ASSUME Ordered(chain, slot)
    PROVE  /\ \A topUp : Landed("store", topUp) <=> \E tx \in Response : StoreOf(tx, topUp) /\ topUp \in TopUps
           /\ \A send : Landed("init", send)
                        <=> \E tx \in Response, ver \in Accounts : InitOf(tx, send, ver) /\ send \in Sends
           /\ \A send : Landed("finalize", send)
                        <=> \E tx \in Response, ver \in Accounts : FinalizeOf(tx, send, ver) /\ send \in Sends
<1>1. \A tx \in Response : Formed(tx)
  BY DEF Ordered, Response
<1>2. ASSUME NEW topUp
      PROVE  Landed("store", topUp) <=> \E tx \in Response : StoreOf(tx, topUp) /\ topUp \in TopUps
  <2>1. ASSUME NEW tx \in Response, Has(tx, "store"), Get(tx, "store").of = topUp
        PROVE  StoreOf(tx, topUp) /\ topUp \in TopUps
    <3>1. PICK t \in TopUps : StoreOf(tx, t)
      BY <1>1, <2>1, FormedHas
    <3>2. Get(tx, "store").of = t
      BY <3>1, StoreGet
    <3> QED BY <2>1, <3>1, <3>2
  <2>2. ASSUME NEW tx \in Response, StoreOf(tx, topUp)
        PROVE  Has(tx, "store") /\ Get(tx, "store").of = topUp
    BY <2>2, StoreGet
  <2> QED BY <2>1, <2>2 DEF Landed
<1>3. ASSUME NEW send
      PROVE  Landed("init", send) <=> \E tx \in Response, ver \in Accounts : InitOf(tx, send, ver) /\ send \in Sends
  <2>1. ASSUME NEW tx \in Response, Has(tx, "init"), Get(tx, "init").of = send
        PROVE  \E ver \in Accounts : InitOf(tx, send, ver) /\ send \in Sends
    <3>1. PICK s \in Sends, ver \in Accounts : InitOf(tx, s, ver)
      BY <1>1, <2>1, FormedHas
    <3>2. Get(tx, "init").of = s
      BY <3>1, InitHas DEF Ix
    <3> QED BY <2>1, <3>1, <3>2
  <2>2. ASSUME NEW tx \in Response, NEW ver, InitOf(tx, send, ver)
        PROVE  Has(tx, "init") /\ Get(tx, "init").of = send
    BY <2>2, InitHas DEF Ix
  <2> QED BY <2>1, <2>2 DEF Landed
<1>4. ASSUME NEW send
      PROVE  Landed("finalize", send)
             <=> \E tx \in Response, ver \in Accounts : FinalizeOf(tx, send, ver) /\ send \in Sends
  <2>1. ASSUME NEW tx \in Response, Has(tx, "finalize"), Get(tx, "finalize").of = send
        PROVE  \E ver \in Accounts : FinalizeOf(tx, send, ver) /\ send \in Sends
    <3>1. PICK s \in Sends, ver \in Accounts : FinalizeOf(tx, s, ver)
      BY <1>1, <2>1, FormedHas
    <3>2. Get(tx, "finalize").of = s
      BY <3>1, FinalizeHas DEF Ix
    <3> QED BY <2>1, <3>1, <3>2
  <2>2. ASSUME NEW tx \in Response, NEW ver, FinalizeOf(tx, send, ver)
        PROVE  Has(tx, "finalize") /\ Get(tx, "finalize").of = send
    BY <2>2, FinalizeHas DEF Ix
  <2> QED BY <2>1, <2>2 DEF Landed
<1> QED BY <1>2, <1>3, <1>4

(* One transaction is one thing only.                                        *)
LEMMA OneForm ==
    ASSUME NEW tx
    PROVE  /\ \A topUp, s, v : ~(StoreOf(tx, topUp) /\ InitOf(tx, s, v)) /\ ~(StoreOf(tx, topUp) /\ FinalizeOf(tx, s, v))
           /\ \A s, v, r, w : ~(InitOf(tx, s, v) /\ FinalizeOf(tx, r, w))
           /\ \A t, u : StoreOf(tx, t) /\ StoreOf(tx, u) => t = u
           /\ \A s, v, r, w : InitOf(tx, s, v) /\ InitOf(tx, r, w) => s = r /\ v = w
           /\ \A s, v, r, w : FinalizeOf(tx, s, v) /\ FinalizeOf(tx, r, w) => s = r /\ v = w
<1>1. \A t : StoreOf(tx, t) => /\ Has(tx, "store") /\ ~Has(tx, "init") /\ ~Has(tx, "finalize")
                               /\ Get(tx, "store").of = t
  BY StoreGet
<1>2. \A s, v : InitOf(tx, s, v) => /\ Has(tx, "init") /\ ~Has(tx, "store") /\ ~Has(tx, "finalize")
                                    /\ Get(tx, "init").of = s /\ Get(tx, "init").ver = v
  BY InitHas DEF Ix
<1>3. \A s, v : FinalizeOf(tx, s, v) => /\ Has(tx, "finalize") /\ ~Has(tx, "store") /\ ~Has(tx, "init")
                                        /\ Get(tx, "finalize").of = s /\ Get(tx, "finalize").ver = v
  BY FinalizeHas DEF Ix
<1> QED BY <1>1, <1>2, <1>3

-----------------------------------------------------------------------------
LEMMA LandSucceeds ==
    ASSUME NEW tx, tx.err = FALSE, chain' = chain \cup {tx}
    PROVE  Response' = Response \cup {tx}
BY DEF Response

LEMMA LandFails ==
    ASSUME NEW ixs, Land(ixs, TRUE, 0)
    PROVE  \E tx : /\ tx.sig = slot /\ tx.err = TRUE /\ tx.ixs = ixs /\ tx.cpis = 0
                   /\ chain' = chain \cup {tx} /\ slot' = slot + 1
                   /\ Response' = Response
<1> DEFINE tx == [sig |-> slot, err |-> TRUE, ixs |-> ixs, cpis |-> 0]
<1>1. tx.sig = slot /\ tx.err = TRUE /\ tx.ixs = ixs /\ tx.cpis = 0
  OBVIOUS
<1>2. chain' = chain \cup {tx} /\ slot' = slot + 1
  BY DEF Land
<1> HIDE DEF tx
<1>3. Response' = Response
  BY <1>1, <1>2 DEF Response
<1> QED BY <1>1, <1>2, <1>3

LEMMA InitHolds == Init => ResponseInv
<1> SUFFICES ASSUME Init PROVE ResponseInv
  OBVIOUS
<1>1. chain = {} /\ Response = {} /\ slot = 1 /\ \A ver \in Accounts : account[ver] = None
  BY DEF Init, Response
<1>2. account \in [Accounts -> Sends \cup {None}]
  BY DEF Init
<1> QED BY <1>1, <1>2 DEF ResponseInv, Ordered, FinalizedOwn, InUse, Once

LEMMA TopUpStep ==
    ASSUME ResponseInv, NEW topUp \in TopUps, TopUp(topUp)
    PROVE  ResponseInv'
<1> DEFINE count == IF topUp \in InTokens THEN 6 ELSE 5
<1>1. PICK tx : /\ tx.sig = slot /\ tx.err = FALSE /\ tx.ixs = StoreIxs(topUp) /\ tx.cpis = count
                /\ chain' = chain \cup {tx} /\ slot' = slot + 1 /\ Response' = Response \cup {tx}
  <2> DEFINE new == [sig |-> slot, err |-> FALSE, ixs |-> StoreIxs(topUp), cpis |-> count]
  <2>1. new.sig = slot /\ new.err = FALSE /\ new.ixs = StoreIxs(topUp) /\ new.cpis = count
    OBVIOUS
  <2>2. chain' = chain \cup {new} /\ slot' = slot + 1
    BY DEF TopUp, Land
  <2> HIDE DEF new
  <2>3. Response' = Response \cup {new}
    BY <2>1, <2>2, LandSucceeds
  <2> QED BY <2>1, <2>2, <2>3
<1>2. StoreOf(tx, topUp) /\ Formed(tx)
  BY <1>1 DEF StoreOf, Formed
<1>3. /\ slot \in Nat \ {0} /\ Ordered(chain, slot) /\ Ordered(Response, slot)
      /\ FinalizedOwn(Response) /\ InUse(Response) /\ Once(Response)
  BY ResponseOrdered DEF ResponseInv
<1>4. Ordered(chain, slot)'
  BY <1>1, <1>2, <1>3, LandKeepsOrder
<1>5. FinalizedOwn(Response)'
  <2>1. \A send \in Sends, ver \in Accounts : ~FinalizeOf(tx, send, ver)
    BY <1>2, OneForm
  <2>2. FinalizedOwn(Response \cup {tx})
    BY <1>1, <1>3, <2>1, LandKeepsFinalized
  <2> QED BY <1>1, <2>2 DEF FinalizedOwn, OwnInit, FinalizeOf, InitOf
<1>6. InUse(Response)'
  <2> SUFFICES ASSUME NEW ver \in Accounts, account[ver] # None
               PROVE  \E u : OwnInit(Response \cup {tx}, u, account[ver], ver, slot + 1)
    BY <1>1 DEF InUse, TopUp, OwnInit, InitOf
  <2>1. PICK u : OwnInit(Response, u, account[ver], ver, slot)
    BY <1>3 DEF InUse
  <2>2. \A other \in Sends : ~InitOf(tx, other, ver)
    BY <1>2, OneForm
  <2> QED BY <1>1, <1>3, <2>1, <2>2, LandKeepsInUse
<1>7. Once(Response)'
  <2>1. \A t \in Response : ~StoreOf(t, topUp)
    BY <1>3, LandedIs DEF TopUp
  <2>2. Once(Response \cup {tx})
    BY <1>2, <1>3, <2>1, OneForm, LandKeepsOnce
  <2> QED BY <1>1, <2>2 DEF Once, StoreOf, InitOf, FinalizeOf
<1> QED BY <1>1, <1>3, <1>4, <1>5, <1>6, <1>7 DEF ResponseInv, TopUp

LEMMA InitStep ==
    ASSUME ResponseInv, NEW send \in Sends, NEW ver \in Accounts, InitVerification(send, ver)
    PROVE  ResponseInv'
<1>1. PICK tx : /\ tx.sig = slot /\ tx.err = FALSE /\ tx.ixs = InitIxs(send, ver) /\ tx.cpis = 0
                /\ chain' = chain \cup {tx} /\ slot' = slot + 1 /\ Response' = Response \cup {tx}
  <2> DEFINE new == [sig |-> slot, err |-> FALSE, ixs |-> InitIxs(send, ver), cpis |-> 0]
  <2>1. new.sig = slot /\ new.err = FALSE /\ new.ixs = InitIxs(send, ver) /\ new.cpis = 0
    OBVIOUS
  <2>2. chain' = chain \cup {new} /\ slot' = slot + 1
    BY DEF InitVerification, Land
  <2> HIDE DEF new
  <2>3. Response' = Response \cup {new}
    BY <2>1, <2>2, LandSucceeds
  <2> QED BY <2>1, <2>2, <2>3
<1>2. InitOf(tx, send, ver) /\ Formed(tx)
  BY <1>1 DEF InitOf, Formed
<1>3. /\ slot \in Nat \ {0} /\ Ordered(chain, slot) /\ Ordered(Response, slot)
      /\ FinalizedOwn(Response) /\ InUse(Response) /\ Once(Response)
  BY ResponseOrdered DEF ResponseInv
<1>4. Ordered(chain, slot)'
  BY <1>1, <1>2, <1>3, LandKeepsOrder
<1>5. FinalizedOwn(Response)'
  <2>1. \A s \in Sends, v \in Accounts : ~FinalizeOf(tx, s, v)
    BY <1>2, OneForm
  <2>2. FinalizedOwn(Response \cup {tx})
    BY <1>1, <1>3, <2>1, LandKeepsFinalized
  <2> QED BY <1>1, <2>2 DEF FinalizedOwn, OwnInit, FinalizeOf, InitOf
<1>6. InUse(Response)'
  <2>0. account' = [account EXCEPT ![ver] = send] /\ account \in [Accounts -> Sends \cup {None}]
    BY DEF InitVerification, ResponseInv
  <2> SUFFICES ASSUME NEW v \in Accounts, account'[v] # None
               PROVE  \E u : OwnInit(Response \cup {tx}, u, account'[v], v, slot + 1)
    BY <1>1 DEF InUse, OwnInit, InitOf
  <2>1. CASE v = ver
    <3>1. \A w \in Response \cup {tx} : w.sig \in 1..slot
      BY <1>1, <1>3 DEF Ordered
    <3>2. OwnInit(Response \cup {tx}, tx, send, ver, slot + 1)
      BY <1>1, <1>2, <1>3, <3>1 DEF OwnInit
    <3> QED BY <2>0, <2>1, <3>2
  <2>2. CASE v # ver
    <3>1. account'[v] = account[v]
      BY <2>0, <2>2
    <3>2. PICK u : OwnInit(Response, u, account[v], v, slot)
      BY <1>3, <3>1 DEF InUse
    <3>3. \A other \in Sends : ~InitOf(tx, other, v)
      BY <1>2, <2>2, OneForm
    <3> QED BY <1>1, <1>3, <3>1, <3>2, <3>3, LandKeepsInUse
  <2> QED BY <2>1, <2>2
<1>7. Once(Response)'
  <2>1. \A t \in Response, v \in Accounts : ~InitOf(t, send, v)
    BY <1>3, LandedIs DEF InitVerification
  <2>2. \A t \in Response : \A topUp \in TopUps : ~(StoreOf(t, topUp) /\ StoreOf(tx, topUp))
    BY <1>2, OneForm
  <2>3. \A t \in Response : \A s \in Sends, v, w \in Accounts :
            ~(InitOf(t, s, v) /\ InitOf(tx, s, w)) /\ ~(FinalizeOf(t, s, v) /\ FinalizeOf(tx, s, w))
    BY <1>2, <2>1, OneForm
  <2>4. Once(Response \cup {tx})
    BY <1>3, <2>2, <2>3, LandKeepsOnce
  <2> QED BY <1>1, <2>4 DEF Once, StoreOf, InitOf, FinalizeOf
<1>8. account' \in [Accounts -> Sends \cup {None}]
  BY DEF InitVerification, ResponseInv
<1> QED BY <1>1, <1>3, <1>4, <1>5, <1>6, <1>7, <1>8 DEF ResponseInv

(* The send that is finalized has the account, so it is the one to have      *)
(* initialised it last.                                                      *)
LEMMA FinalizeStep ==
    ASSUME ResponseInv, ResponseAssumption, NEW send \in Sends, NEW ver \in Accounts, FinalizeVerification(send, ver)
    PROVE  ResponseInv'
<1>1. PICK tx : /\ tx.sig = slot /\ tx.err = FALSE /\ tx.ixs = FinalizeIxs(send, ver) /\ tx.cpis = 0
                /\ chain' = chain \cup {tx} /\ slot' = slot + 1 /\ Response' = Response \cup {tx}
  <2> DEFINE new == [sig |-> slot, err |-> FALSE, ixs |-> FinalizeIxs(send, ver), cpis |-> 0]
  <2>1. new.sig = slot /\ new.err = FALSE /\ new.ixs = FinalizeIxs(send, ver) /\ new.cpis = 0
    OBVIOUS
  <2>2. chain' = chain \cup {new} /\ slot' = slot + 1
    BY DEF FinalizeVerification, Land
  <2> HIDE DEF new
  <2>3. Response' = Response \cup {new}
    BY <2>1, <2>2, LandSucceeds
  <2> QED BY <2>1, <2>2, <2>3
<1>2. FinalizeOf(tx, send, ver) /\ Formed(tx)
  BY <1>1 DEF FinalizeOf, Formed
<1>3. /\ slot \in Nat \ {0} /\ Ordered(chain, slot) /\ Ordered(Response, slot)
      /\ FinalizedOwn(Response) /\ InUse(Response) /\ Once(Response)
  BY ResponseOrdered DEF ResponseInv
<1>4. Ordered(chain, slot)'
  BY <1>1, <1>2, <1>3, LandKeepsOrder
<1>5. FinalizedOwn(Response)'
  <2>1. account[ver] = send /\ send # None
    BY DEF FinalizeVerification, ResponseAssumption
  <2>2. \A s \in Sends, v \in Accounts : FinalizeOf(tx, s, v) => \E u : OwnInit(Response, u, s, v, slot)
    BY <1>2, <1>3, <2>1, OneForm DEF InUse
  <2>3. FinalizedOwn(Response \cup {tx})
    BY <1>1, <1>3, <2>2, LandKeepsFinalized
  <2> QED BY <1>1, <2>3 DEF FinalizedOwn, OwnInit, FinalizeOf, InitOf
<1>6. InUse(Response)'
  <2> SUFFICES ASSUME NEW v \in Accounts, account[v] # None
               PROVE  \E u : OwnInit(Response \cup {tx}, u, account[v], v, slot + 1)
    BY <1>1 DEF InUse, FinalizeVerification, OwnInit, InitOf
  <2>1. PICK u : OwnInit(Response, u, account[v], v, slot)
    BY <1>3 DEF InUse
  <2>2. \A other \in Sends : ~InitOf(tx, other, v)
    BY <1>2, OneForm
  <2> QED BY <1>1, <1>3, <2>1, <2>2, LandKeepsInUse
<1>7. Once(Response)'
  <2>1. \A t \in Response, v \in Accounts : ~FinalizeOf(t, send, v)
    BY <1>3, LandedIs DEF FinalizeVerification
  <2>2. \A t \in Response : \A topUp \in TopUps : ~(StoreOf(t, topUp) /\ StoreOf(tx, topUp))
    BY <1>2, OneForm
  <2>3. \A t \in Response : \A s \in Sends, v, w \in Accounts :
            ~(InitOf(t, s, v) /\ InitOf(tx, s, w)) /\ ~(FinalizeOf(t, s, v) /\ FinalizeOf(tx, s, w))
    BY <1>2, <2>1, OneForm
  <2>4. Once(Response \cup {tx})
    BY <1>3, <2>2, <2>3, LandKeepsOnce
  <2> QED BY <1>1, <2>4 DEF Once, StoreOf, InitOf, FinalizeOf
<1> QED BY <1>1, <1>3, <1>4, <1>5, <1>6, <1>7 DEF ResponseInv, FinalizeVerification

(* A transaction that fails is not in the response.                          *)
LEMMA FailStep ==
    ASSUME ResponseInv, NEW send \in Sends, NEW ver \in Accounts, InitFails(send, ver) \/ FinalizeFails(send, ver)
    PROVE  ResponseInv'
<1>1. PICK ixs \in {InitIxs(send, ver), FinalizeIxs(send, ver)} : Fail(ixs)
  BY DEF InitFails, FinalizeFails
<1>2. PICK tx : /\ tx.sig = slot /\ tx.err = TRUE /\ tx.ixs = ixs /\ tx.cpis = 0
                /\ chain' = chain \cup {tx} /\ slot' = slot + 1 /\ Response' = Response
  BY <1>1, LandFails DEF Fail
<1>3. Formed(tx)
  BY <1>1, <1>2 DEF Formed, InitOf, FinalizeOf
<1>4. /\ slot \in Nat \ {0} /\ Ordered(chain, slot) /\ Ordered(Response, slot)
      /\ FinalizedOwn(Response) /\ InUse(Response) /\ Once(Response)
  BY ResponseOrdered DEF ResponseInv
<1>5. Ordered(chain, slot)'
  BY <1>2, <1>3, <1>4, LandKeepsOrder
<1>6. account' = account /\ account \in [Accounts -> Sends \cup {None}]
  BY <1>1 DEF Fail, ResponseInv
<1>7. InUse(Response)'
  <2>1. \A w \in Response : w.sig \in 1..(slot - 1)
    BY <1>4 DEF Ordered
  <2>2. \A u, s, v : OwnInit(Response, u, s, v, slot) => OwnInit(Response, u, s, v, slot + 1)
    BY <1>4, <2>1 DEF OwnInit
  <2> QED BY <1>2, <1>4, <1>6, <2>2 DEF InUse, OwnInit, InitOf
<1>8. FinalizedOwn(Response)' /\ Once(Response)'
  BY <1>2, <1>4 DEF FinalizedOwn, Once, OwnInit, FinalizeOf, InitOf, StoreOf
<1> QED BY <1>2, <1>4, <1>5, <1>6, <1>7, <1>8 DEF ResponseInv

LEMMA CloseStep ==
    ASSUME ResponseInv, NEW ver \in Accounts, CloseVerification(ver)
    PROVE  ResponseInv'
<1>1. chain' = chain /\ slot' = slot /\ Response' = Response
  BY DEF CloseVerification, Response
<1>2. account' \in [Accounts -> Sends \cup {None}]
  BY DEF CloseVerification, ResponseInv
<1>3. InUse(Response)'
  <2>1. \A v \in Accounts : account'[v] # None => account'[v] = account[v]
    BY DEF CloseVerification, ResponseInv
  <2> QED BY <1>1, <2>1 DEF ResponseInv, InUse, OwnInit, InitOf
<1>4. FinalizedOwn(Response)' /\ Once(Response)' /\ Ordered(chain, slot)'
  BY <1>1 DEF ResponseInv, FinalizedOwn, Once, Ordered, Formed, OwnInit, FinalizeOf, InitOf, StoreOf
<1> QED BY <1>1, <1>2, <1>3, <1>4 DEF ResponseInv

LEMMA StepHolds ==
    ASSUME ResponseInv, ResponseAssumption, [Next]_vars
    PROVE  ResponseInv'
<1>1. CASE \E topUp \in TopUps : TopUp(topUp)
  BY <1>1, TopUpStep
<1>2. CASE \E send \in Sends, ver \in Accounts : InitVerification(send, ver)
  BY <1>2, InitStep
<1>3. CASE \E send \in Sends, ver \in Accounts : FinalizeVerification(send, ver)
  BY <1>3, FinalizeStep
<1>4. CASE \E send \in Sends, ver \in Accounts : InitFails(send, ver) \/ FinalizeFails(send, ver)
  BY <1>4, FailStep
<1>5. CASE \E ver \in Accounts : CloseVerification(ver)
  BY <1>5, CloseStep
<1>6. CASE UNCHANGED vars
  <2>1. chain' = chain /\ slot' = slot /\ account' = account /\ Response' = Response
    BY <1>6 DEF vars, Response
  <2> QED BY <2>1 DEF ResponseInv, InUse, FinalizedOwn, Once, Ordered, Formed, OwnInit, FinalizeOf, InitOf, StoreOf
<1> QED BY <1>1, <1>2, <1>3, <1>4, <1>5, <1>6 DEF Next

LEMMA Inductive == Spec => []ResponseInv
BY InitHolds, StepHolds, ResponseAssumption, PTL DEF Spec

-----------------------------------------------------------------------------
(* What the converter makes of such a response.                              *)
LEMMA FirstIs ==
    ASSUME NEW txs, NEW u \in txs, \A t \in txs : t.sig \in Nat /\ t.sig <= u.sig /\ (t.sig = u.sig => t = u)
    PROVE  First(txs) = u
<1>1. \A other \in txs : other.sig <= u.sig
  OBVIOUS
<1>2. \A t \in txs : (\A other \in txs : other.sig <= t.sig) => t = u
  OBVIOUS
<1> QED BY <1>1, <1>2 DEF First

LEMMA FirstOfOne ==
    ASSUME NEW u, u.sig \in Nat
    PROVE  First({u}) = u
<1>1. First({u}) \in {u} \/ ~\E tx \in {u} : \A other \in {u} : other.sig <= tx.sig
  BY Zenon DEF First
<1>2. \A other \in {u} : other.sig <= u.sig
  OBVIOUS
<1> QED BY <1>1, <1>2

LEMMA ResponseForms ==
    ASSUME ResponseInv
    PROVE  /\ GetElusivTxs(Response) = Response
           /\ \A tx \in Response : Formed(tx) /\ tx.sig \in Nat
           /\ \A t, u \in Response : t.sig = u.sig => t = u
<1>1. \A tx \in Response : Formed(tx) /\ tx.sig \in 1..(slot - 1)
  BY ResponseOrdered DEF Ordered, ResponseInv
<1>2. \A t, u \in Response : t.sig = u.sig => t = u
  BY ResponseOrdered DEF Ordered, ResponseInv
<1>3. \A tx \in Response : IsElusivTx(tx)
  BY <1>1, StoreGet, InitHas, FinalizeHas DEF Formed, IsElusivTx, IsStoreTx, IsSendTx
<1> QED BY <1>1, <1>2, <1>3 DEF GetElusivTxs

LEMMA HasForm ==
    ASSUME ResponseInv, NEW tx \in Response
    PROVE  /\ Has(tx, "store") <=> \E topUp \in TopUps : StoreOf(tx, topUp)
           /\ Has(tx, "init") <=> \E send \in Sends, ver \in Accounts : InitOf(tx, send, ver)
           /\ Has(tx, "finalize") <=> \E send \in Sends, ver \in Accounts : FinalizeOf(tx, send, ver)
<1>1. Formed(tx)
  BY ResponseForms
<1> QED BY <1>1, FormedHas, StoreGet, InitHas, FinalizeHas

(* A finalize finds the init of its own send.                                *)
LEMMA PartnerIsOwn ==
    ASSUME ResponseInv, NEW f \in Response, NEW send \in Sends, NEW ver \in Accounts, FinalizeOf(f, send, ver)
    PROVE  \E u \in Response : /\ InitOf(u, send, ver) /\ u.sig < f.sig
                               /\ InitPartners(Response, f) # {}
                               /\ First(InitPartners(Response, f)) = u
<1>1. PICK u \in Response : OwnInit(Response, u, send, ver, f.sig)
  BY DEF ResponseInv, FinalizedOwn, OwnInit
<1>2. InitOf(u, send, ver) /\ u.sig < f.sig /\ f.sig \in Nat /\ u.sig \in Nat
  BY <1>1, ResponseForms DEF OwnInit
<1>3. Get(f, "finalize").ver = ver /\ Get(u, "init").ver = ver /\ Has(u, "init")
  BY <1>2, InitHas, FinalizeHas DEF Ix
<1>4. u \in InitPartners(Response, f)
  BY <1>2, <1>3 DEF InitPartners, SameVerificationAcc
<1>5. ASSUME NEW w \in InitPartners(Response, f)
      PROVE  w.sig \in Nat /\ w.sig <= u.sig /\ (w.sig = u.sig => w = u)
  <2>1. w \in Response /\ w.sig <= f.sig /\ Has(w, "init") /\ Get(w, "init").ver = ver
    BY <1>3 DEF InitPartners, SameVerificationAcc
  <2>2. PICK s \in Sends, v \in Accounts : InitOf(w, s, v)
    BY <2>1, HasForm
  <2>3. InitOf(w, s, ver)
    BY <2>1, <2>2, InitHas DEF Ix
  <2>4. w # f /\ w.sig # f.sig
    BY <2>1, <2>3, OneForm, ResponseForms
  <2>5. w.sig \in Nat /\ w.sig < f.sig
    BY <1>2, <2>1, <2>4, ResponseForms
  <2> QED BY <1>1, <2>1, <2>3, <2>5, ResponseForms DEF OwnInit
<1> QED BY <1>2, <1>4, <1>5, FirstIs

LEMMA SendOfPair ==
    ASSUME ResponseInv, NEW f \in Response, NEW send \in Sends, NEW ver \in Accounts, FinalizeOf(f, send, ver)
    PROVE  LET told == Send(Pair(Response, f))
           IN /\ ParsesSend(Pair(Response, f))
              /\ told.txType = "SEND" /\ told.of = send /\ told.finalizedBy = send
<1>1. PICK u \in Response : InitOf(u, send, ver) /\ First(InitPartners(Response, f)) = u
  BY PartnerIsOwn
<1>2. Pair(Response, f) = {f, u}
  BY <1>1 DEF Pair
<1>3. /\ Has(u, "init") /\ ~Has(u, "finalize") /\ Get(u, "init").code = "init" /\ Get(u, "init").of = send
      /\ Has(f, "finalize") /\ ~Has(f, "init") /\ Get(f, "finalize").of = send
  BY <1>1, InitHas, FinalizeHas DEF Ix
<1>4. {tx \in {f, u} : Has(tx, "init")} = {u} /\ {tx \in {f, u} : Has(tx, "finalize")} = {f}
  BY <1>3
<1>5. First({u}) = u /\ First({f}) = f
  BY ResponseForms, FirstOfOne
<1>6. ParsesSend({f, u})
  BY <1>3, <1>4, <1>5 DEF ParsesSend, Parses, Parsed
<1>7. Send({f, u}).txType = "SEND" /\ Send({f, u}).of = send /\ Send({f, u}).finalizedBy = send
  BY <1>3, <1>4, <1>5 DEF Send
<1> QED BY <1>2, <1>6, <1>7

LEMMA SendOfPending ==
    ASSUME ResponseInv, NEW i \in Response, NEW send \in Sends, NEW ver \in Accounts, InitOf(i, send, ver)
    PROVE  LET told == Send({i})
           IN /\ ParsesSend({i})
              /\ told.txType = "SEND" /\ told.of = send /\ told.finalizedBy = None
<1>1. Has(i, "init") /\ ~Has(i, "finalize") /\ Get(i, "init").code = "init" /\ Get(i, "init").of = send
  BY InitHas DEF Ix
<1>2. {tx \in {i} : Has(tx, "init")} = {i} /\ {tx \in {i} : Has(tx, "finalize")} = {}
  BY <1>1
<1>3. First({i}) = i
  BY ResponseForms, FirstOfOne
<1>4. ParsesSend({i})
  BY <1>1, <1>2, <1>3 DEF ParsesSend, Parses, Parsed
<1>5. Send({i}).txType = "SEND" /\ Send({i}).of = send /\ Send({i}).finalizedBy = None
  BY <1>1, <1>2, <1>3 DEF Send
<1> QED BY <1>4, <1>5

(* An init is skipped exactly when its send is finalized.                    *)
LEMMA ViewedIfFinalized ==
    ASSUME ResponseInv, NEW i \in Response, NEW send \in Sends, NEW ver \in Accounts, InitOf(i, send, ver)
    PROVE  Viewed(Response, i) <=> \E f \in Response, v \in Accounts : FinalizeOf(f, send, v)
<1>1. ASSUME Viewed(Response, i)
      PROVE  \E f \in Response, v \in Accounts : FinalizeOf(f, send, v)
  <2>1. PICK f \in Response : Has(f, "finalize") /\ First(InitPartners(Response, f)) = i
    BY <1>1 DEF Viewed
  <2>2. PICK s \in Sends, v \in Accounts : FinalizeOf(f, s, v)
    BY <2>1, HasForm
  <2>3. InitOf(i, s, v)
    BY <2>1, <2>2, PartnerIsOwn
  <2> QED BY <2>2, <2>3, OneForm
<1>2. ASSUME NEW f \in Response, NEW v \in Accounts, FinalizeOf(f, send, v)
      PROVE  Viewed(Response, i)
  <2>1. PICK u \in Response : /\ InitOf(u, send, v) /\ u.sig < f.sig
                              /\ InitPartners(Response, f) # {} /\ First(InitPartners(Response, f)) = u
    BY <1>2, PartnerIsOwn
  <2>2. u = i
    BY <2>1 DEF ResponseInv, Once
  <2>3. Has(f, "finalize") /\ f.sig > i.sig
    BY <1>2, <2>1, <2>2, FinalizeHas, ResponseForms
  <2> QED BY <2>1, <2>2, <2>3 DEF Viewed
<1> QED BY <1>1, <1>2

LEMMA ConvertIs ==
    ASSUME ResponseInv
    PROVE  \A told : told \in Convert(Response) <=>
               \/ \E tx \in Response, topUp \in TopUps : StoreOf(tx, topUp) /\ told = Store(tx)
               \/ \E tx \in Response, send \in Sends, ver \in Accounts :
                      FinalizeOf(tx, send, ver) /\ told = Send(Pair(Response, tx))
               \/ \E tx \in Response, send \in Sends, ver \in Accounts :
                      InitOf(tx, send, ver) /\ ~Viewed(Response, tx) /\ told = Send({tx})
<1>1. \A tx : tx \in Stores(Response) <=> tx \in Response /\ \E topUp \in TopUps : StoreOf(tx, topUp)
  BY HasForm DEF Stores, IsStoreTx
<1>2. \A tx : tx \in Finalizes(Response)
              <=> tx \in Response /\ \E send \in Sends, ver \in Accounts : FinalizeOf(tx, send, ver)
  BY HasForm DEF Finalizes
<1>3. \A tx : tx \in Pending(Response)
              <=> /\ tx \in Response /\ ~Viewed(Response, tx)
                  /\ \E send \in Sends, ver \in Accounts : InitOf(tx, send, ver)
  BY HasForm DEF Pending
<1>4. Convert(Response) = {Store(tx) : tx \in Stores(Response)}
                          \cup {Send(Pair(Response, tx)) : tx \in Finalizes(Response)}
                          \cup {Send({tx}) : tx \in Pending(Response)}
  BY ResponseForms DEF Convert
<1> HIDE DEF Convert
<1> QED BY <1>1, <1>2, <1>3, <1>4

(* What is told of a send, and of a top-up.                                  *)
LEMMA SendTold ==
    ASSUME ResponseInv, NEW told \in Convert(Response), told.txType = "SEND"
    PROVE  \/ \E tx \in Response, ver \in Accounts :
                  /\ FinalizeOf(tx, told.of, ver) /\ told = Send(Pair(Response, tx))
                  /\ told.of \in Sends /\ told.finalizedBy = told.of
           \/ \E tx \in Response, ver \in Accounts :
                  /\ InitOf(tx, told.of, ver) /\ told = Send({tx})
                  /\ told.of \in Sends /\ told.finalizedBy = None
                  /\ ~\E f \in Response, v \in Accounts : FinalizeOf(f, told.of, v)
<1>1. ~\E tx \in Response : told = Store(tx)
  BY DEF Store
<1>2. ASSUME NEW tx \in Response, NEW send \in Sends, NEW ver \in Accounts,
             FinalizeOf(tx, send, ver), told = Send(Pair(Response, tx))
      PROVE  told.of = send /\ told.finalizedBy = send
  BY <1>2, SendOfPair
<1>3. ASSUME NEW tx \in Response, NEW send \in Sends, NEW ver \in Accounts,
             InitOf(tx, send, ver), ~Viewed(Response, tx), told = Send({tx})
      PROVE  /\ told.of = send /\ told.finalizedBy = None
             /\ ~\E f \in Response, v \in Accounts : FinalizeOf(f, send, v)
  BY <1>3, SendOfPending, ViewedIfFinalized
<1>4. CASE \E tx \in Response, send \in Sends, ver \in Accounts :
               FinalizeOf(tx, send, ver) /\ told = Send(Pair(Response, tx))
  <2>1. PICK tx \in Response, send \in Sends, ver \in Accounts :
            FinalizeOf(tx, send, ver) /\ told = Send(Pair(Response, tx))
    BY <1>4
  <2>2. told.of = send /\ told.finalizedBy = send
    BY <1>2, <2>1
  <2> QED BY <2>1, <2>2
<1>5. CASE \E tx \in Response, send \in Sends, ver \in Accounts :
               InitOf(tx, send, ver) /\ ~Viewed(Response, tx) /\ told = Send({tx})
  <2>1. PICK tx \in Response, send \in Sends, ver \in Accounts :
            InitOf(tx, send, ver) /\ ~Viewed(Response, tx) /\ told = Send({tx})
    BY <1>5
  <2>2. /\ told.of = send /\ told.finalizedBy = None
        /\ ~\E f \in Response, v \in Accounts : FinalizeOf(f, send, v)
    BY <1>3, <2>1
  <2> QED BY <2>1, <2>2
<1> QED BY <1>1, <1>4, <1>5, ConvertIs

LEMMA TopUpTold ==
    ASSUME ResponseInv, NEW told \in Convert(Response), told.txType = "TOPUP"
    PROVE  \E tx \in Response : told.of \in TopUps /\ StoreOf(tx, told.of) /\ told = Store(tx)
<1>1. ASSUME NEW tx \in Response, NEW topUp \in TopUps, StoreOf(tx, topUp), told = Store(tx)
      PROVE  told.of = topUp
  BY <1>1, StoreGet DEF Store
<1>2. \A tx \in Response, send \in Sends, ver \in Accounts :
          /\ FinalizeOf(tx, send, ver) => told # Send(Pair(Response, tx))
          /\ InitOf(tx, send, ver) => told # Send({tx})
  BY SendOfPair, SendOfPending
<1> QED BY <1>1, <1>2, ConvertIs

(* A send is told with its own finalize, if that has landed                  *)
(* (ResponseConverter.ts:48-66).                                             *)
LEMMA PairedHolds == ResponseInv => PairedWithOwn
<1> SUFFICES ASSUME ResponseInv, NEW told \in Convert(Response), told.txType = "SEND"
             PROVE  told.finalizedBy = IF Landed("finalize", told.of) THEN told.of ELSE None
  BY DEF PairedWithOwn
<1>1. Landed("finalize", told.of)
      <=> told.of \in Sends /\ \E tx \in Response, ver \in Accounts : FinalizeOf(tx, told.of, ver)
  BY LandedIs DEF ResponseInv
<1> QED BY <1>1, SendTold

LEMMA ThrowsNever == ResponseInv => NeverThrows
<1> SUFFICES ASSUME ResponseInv, Response # {} PROVE ~Throws(Response)
  BY ResponseForms DEF NeverThrows
<1>1. ASSUME NEW tx \in Stores(Response) PROVE ParsesStore(tx)
  <2>1. tx \in Response /\ Has(tx, "store")
    BY DEF Stores, IsStoreTx
  <2>2. PICK topUp \in TopUps : StoreOf(tx, topUp) /\ tx.cpis = IF topUp \in InTokens THEN 6 ELSE 5
    BY <2>1, FormedHas, ResponseForms
  <2>3. Ix("store", topUp, None).code = "store" /\ Ix("store", topUp, None).of = topUp
        /\ Ix("compute", topUp, None).code = "compute"
    BY DEF Ix
  <2>4. Len(tx.ixs) = 4 /\ tx.ixs[3].code = "store" /\ tx.ixs[3].of = topUp /\ tx.ixs[4].code = "compute"
    BY <2>2, <2>3, StoreHas
  <2> QED BY <2>2, <2>4 DEF ParsesStore, Parses, Parsed
<1>2. ASSUME NEW tx \in Finalizes(Response)
      PROVE  InitPartners(Response, tx) # {} /\ ParsesSend(Pair(Response, tx))
  <2>1. tx \in Response /\ Has(tx, "finalize")
    BY DEF Finalizes
  <2>2. PICK send \in Sends, ver \in Accounts : FinalizeOf(tx, send, ver)
    BY <2>1, HasForm
  <2> QED BY <2>1, <2>2, PartnerIsOwn, SendOfPair
<1>3. ASSUME NEW tx \in Pending(Response) PROVE ParsesSend({tx})
  <2>1. tx \in Response /\ Has(tx, "init")
    BY DEF Pending
  <2>2. PICK send \in Sends, ver \in Accounts : InitOf(tx, send, ver)
    BY <2>1, HasForm
  <2> QED BY <2>1, <2>2, SendOfPending
<1> QED BY <1>1, <1>2, <1>3, ResponseForms DEF Throws

(* At most one init and one finalize of a send make at most one telling.     *)
LEMMA OnceHolds == ResponseInv => ToldOnce
<1> SUFFICES ASSUME ResponseInv PROVE ToldOnce
  OBVIOUS
<1> DEFINE told(txType, of) == {tx \in Convert(Response) : tx.txType = txType /\ tx.of = of}
<1>1. \A x : Cardinality({x}) = 1
  BY FS_Singleton
<1>2. Cardinality({}) = 0
  BY FS_EmptySet
<1>3. Once(Response) /\ Ordered(chain, slot)
  BY DEF ResponseInv
<1>4. ASSUME NEW topUp \in TopUps
      PROVE  Cardinality(told("TOPUP", topUp)) = IF Landed("store", topUp) THEN 1 ELSE 0
  <2>1. CASE Landed("store", topUp)
    <3>1. PICK tx \in Response : StoreOf(tx, topUp)
      BY <1>3, <2>1, LandedIs
    <3>2. Store(tx).txType = "TOPUP" /\ Store(tx).of = topUp /\ Store(tx) \in Convert(Response)
      BY <3>1, StoreGet, ConvertIs DEF Store
    <3>3. \A other \in told("TOPUP", topUp) : other = Store(tx)
      BY <1>3, <3>1, TopUpTold DEF Once
    <3>4. told("TOPUP", topUp) = {Store(tx)}
      BY <3>2, <3>3
    <3> QED BY <1>1, <2>1, <3>4
  <2>2. CASE ~Landed("store", topUp)
    <3>1. told("TOPUP", topUp) = {}
      BY <1>3, <2>2, LandedIs, TopUpTold
    <3> QED BY <1>2, <2>2, <3>1
  <2> QED BY <2>1, <2>2
<1>5. ASSUME NEW send \in Sends
      PROVE  Cardinality(told("SEND", send)) = IF Landed("init", send) THEN 1 ELSE 0
  <2>1. CASE \E f \in Response, v \in Accounts : FinalizeOf(f, send, v)
    <3>1. PICK f \in Response, v \in Accounts : FinalizeOf(f, send, v)
      BY <2>1
    <3>2. Landed("init", send)
      BY <1>3, <3>1, PartnerIsOwn, LandedIs
    <3>3. /\ Send(Pair(Response, f)).txType = "SEND" /\ Send(Pair(Response, f)).of = send
          /\ Send(Pair(Response, f)) \in Convert(Response)
      BY <3>1, SendOfPair, ConvertIs
    <3>4. \A other \in told("SEND", send) : other = Send(Pair(Response, f))
      <4> SUFFICES ASSUME NEW other \in told("SEND", send) PROVE other = Send(Pair(Response, f))
        OBVIOUS
      <4>0. other \in Convert(Response) /\ other.txType = "SEND" /\ other.of = send
        OBVIOUS
      <4> HIDE DEF told
      <4>1. PICK tx \in Response, w \in Accounts :
                FinalizeOf(tx, send, w) /\ other = Send(Pair(Response, tx))
        BY <3>1, <4>0, SendTold
      <4>2. tx = f
        BY <1>3, <3>1, <4>1 DEF Once
      <4> QED BY <4>1, <4>2
    <3>5. told("SEND", send) = {Send(Pair(Response, f))}
      BY <3>3, <3>4
    <3> QED BY <1>1, <3>2, <3>5
  <2>2. CASE /\ ~\E f \in Response, v \in Accounts : FinalizeOf(f, send, v)
             /\ \E i \in Response, v \in Accounts : InitOf(i, send, v)
    <3>1. PICK i \in Response, v \in Accounts : InitOf(i, send, v)
      BY <2>2
    <3>2. Landed("init", send)
      BY <1>3, <3>1, LandedIs
    <3>3. Send({i}).txType = "SEND" /\ Send({i}).of = send /\ Send({i}) \in Convert(Response)
      <4>1. Send({i}).txType = "SEND" /\ Send({i}).of = send
        BY <3>1, SendOfPending
      <4>2. ~Viewed(Response, i)
        BY <2>2, <3>1, ViewedIfFinalized
      <4>3. \E tx \in Response, s \in Sends, ver \in Accounts :
                InitOf(tx, s, ver) /\ ~Viewed(Response, tx) /\ Send({i}) = Send({tx})
        BY <3>1, <4>2
      <4> QED BY <4>1, <4>3, ConvertIs
    <3>4. \A other \in told("SEND", send) : other = Send({i})
      <4> SUFFICES ASSUME NEW other \in told("SEND", send) PROVE other = Send({i})
        OBVIOUS
      <4>0. other \in Convert(Response) /\ other.txType = "SEND" /\ other.of = send
        OBVIOUS
      <4> HIDE DEF told
      <4>1. PICK tx \in Response, w \in Accounts : InitOf(tx, send, w) /\ other = Send({tx})
        BY <2>2, <4>0, SendTold
      <4>2. tx = i
        BY <1>3, <3>1, <4>1 DEF Once
      <4> QED BY <4>1, <4>2
    <3>5. told("SEND", send) = {Send({i})}
      BY <3>3, <3>4
    <3> QED BY <1>1, <3>2, <3>5
  <2>3. CASE /\ ~\E f \in Response, v \in Accounts : FinalizeOf(f, send, v)
             /\ ~\E i \in Response, v \in Accounts : InitOf(i, send, v)
    <3>1. ~Landed("init", send)
      BY <1>3, <2>3, LandedIs
    <3>2. told("SEND", send) = {}
      BY <2>3, SendTold
    <3> QED BY <1>2, <3>1, <3>2
  <2> QED BY <2>1, <2>2, <2>3
<1> QED BY <1>4, <1>5 DEF ToldOnce

-----------------------------------------------------------------------------
(* The history of a key can be told at any moment (ResponseConverter.ts and  *)
(* TransactionParsing.ts), however its sends and top-ups are interleaved,    *)
(* whichever of their transactions fail and whatever format they are in.     *)
THEOREM Told == Spec => []NeverThrows
BY Inductive, ThrowsNever, PTL

(* A send is told with its own finalize, also when several sends of the key  *)
(* use one verification account one after another.                           *)
THEOREM PairedRight == Spec => []PairedWithOwn
BY Inductive, PairedHolds, PTL

(* What has landed is told once: none is lost and none told twice.           *)
THEOREM NoneLostOrTwice == Spec => []ToldOnce
BY Inductive, OnceHolds, PTL
=============================================================================
