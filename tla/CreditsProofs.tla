--------------------------- MODULE CreditsProofs ----------------------------
(***************************************************************************)
(* Proofs about Credits, for any number of workers, holds, meters and      *)
(* payments: its invariants, the refinement of Ledger, and the books.      *)
(***************************************************************************)
EXTENDS Credits, FiniteSetTheorems, TLAPS

-----------------------------------------------------------------------------
(* The invariant                                                           *)

Busy(w) == pc[w] # "idle"

Charges(w) == Busy(w) /\ op[w] \in {"relay", "voice"}

\* A call in progress has the arguments of its operation, and holds the
\* user's row only if it is one that locks it.
CallsOK ==
    \A w \in Workers :
        /\ pc[w] \in {"user", "commit"} => op[w] \in {"reserve", "settle", "relay"}
        /\ Busy(w) /\ op[w] \in {"reserve", "settle"}
             => target[w] \in Requests /\ amount[w] \in 0..MaxHold
        /\ Charges(w) => target[w] \in Meters /\ amount[w] \in 0..MaxUnits
        /\ Busy(w) /\ op[w] = "post" => target[w] \in Payments
        /\ Busy(w) /\ op[w] = "renew" => target[w] \in Periods

\* A charge was computed from the watermark that is still there, because no
\* other charge has the row.
ChargesFit ==
    /\ \A w \in Workers : Charges(w) => due[w] + mark[target[w]] <= amount[w]
    /\ \A v, w \in Workers : v # w /\ Charges(v) /\ Charges(w)
          => target[v] # target[w]

CreditInv == TypeOK /\ CallsOK /\ ChargesFit /\ NoDoubleCharge

LEMMA InitInv == Init => CreditInv
  BY CreditsAssumption
  DEF Init, CreditInv, TypeOK, CallsOK, ChargesFit, NoDoubleCharge, Busy,
      Charges, Balances, Buckets, Holds, Targets, Zero, AllOps

LEMMA TotalType == ASSUME NEW b \in Balances PROVE Total(b) \in Int
  BY DEF Total, Balances, Buckets

LEMMA PartsType ==
    ASSUME NEW b \in Balances, NEW n \in Nat
    PROVE  Parts(b, n) \in Balances
  BY DEF Parts, Balances, Buckets, Least, Positive

LEMMA MinusType ==
    ASSUME NEW b \in Balances, NEW p \in Balances
    PROVE  Minus(b, p) \in Balances
  BY DEF Minus, Balances, Buckets

\* What a report owes is a natural number that fits above the watermark.
LEMMA DueFits ==
    ASSUME TypeOK, NEW m \in Meters, NEW n \in 0..MaxUnits
    PROVE  /\ Due(m, n) \in Nat
           /\ Due(m, n) > 0 => Due(m, n) + mark[m] <= n
<1>1. Total(bal) \in Int
  BY TotalType DEF TypeOK
<1>2. Floor \in Int /\ mark[m] \in Nat /\ n \in Nat
  BY CreditsAssumption DEF Floor, TypeOK
<1>3. QED
  BY <1>1, <1>2 DEF Due, Least, Positive

-----------------------------------------------------------------------------
(* Every step keeps it                                                     *)

\* The end of a transaction frees its worker and disturbs no other.
LEMMA EndWorkers ==
    ASSUME CreditInv, NEW w \in Workers, End(w)
    PROVE  /\ pc' \in [Workers -> {"idle", "user", "commit", "parts", "apply"}]
           /\ op' \in [Workers -> AllOps]
           /\ target' \in [Workers -> Targets]
           /\ amount' \in [Workers -> Nat]
           /\ view' \in [Workers -> Balances]
           /\ due' \in [Workers -> Nat]
           /\ CallsOK'
           /\ pc'[w] = "idle"
           /\ \A v \in Workers \ {w} :
                 /\ pc'[v] = pc[v] /\ op'[v] = op[v] /\ target'[v] = target[v]
                 /\ amount'[v] = amount[v] /\ due'[v] = due[v]
<1>1. Zero \in Balances /\ None \in Targets /\ "reserve" \in AllOps
  BY DEF Zero, Balances, Targets, AllOps
<1>2. /\ pc' \in [Workers -> {"idle", "user", "commit", "parts", "apply"}]
      /\ op' \in [Workers -> AllOps]
      /\ target' \in [Workers -> Targets]
      /\ amount' \in [Workers -> Nat]
      /\ view' \in [Workers -> Balances]
      /\ due' \in [Workers -> Nat]
  BY <1>1 DEF End, CreditInv, TypeOK
<1>3. pc'[w] = "idle"
  BY DEF End, CreditInv, TypeOK
<1>4. \A v \in Workers \ {w} :
         /\ pc'[v] = pc[v] /\ op'[v] = op[v] /\ target'[v] = target[v]
         /\ amount'[v] = amount[v] /\ due'[v] = due[v]
  BY DEF End, CreditInv, TypeOK
<1>5. CallsOK'
  <2>1. ASSUME NEW v \in Workers
        PROVE  /\ pc'[v] \in {"user", "commit"} => op'[v] \in {"reserve", "settle", "relay"}
               /\ Busy(v)' /\ op'[v] \in {"reserve", "settle"}
                    => target'[v] \in Requests /\ amount'[v] \in 0..MaxHold
               /\ Charges(v)' => target'[v] \in Meters /\ amount'[v] \in 0..MaxUnits
               /\ Busy(v)' /\ op'[v] = "post" => target'[v] \in Payments
               /\ Busy(v)' /\ op'[v] = "renew" => target'[v] \in Periods
    <3>1. CASE v = w
      BY <1>3, <3>1 DEF Busy, Charges
    <3>2. CASE v # w
      BY <1>4, <3>2 DEF CreditInv, CallsOK, Busy, Charges
    <3>3. QED
      BY <3>1, <3>2
  <2>2. QED
    BY <2>1 DEF CallsOK
<1>6. QED
  BY <1>2, <1>3, <1>4, <1>5

\* A transaction that does not touch the meters leaves them consistent.
LEMMA EndMeters ==
    ASSUME CreditInv, NEW w \in Workers, End(w), UNCHANGED <<mark, charged>>
    PROVE  ChargesFit' /\ NoDoubleCharge'
<1>1. ASSUME NEW v \in Workers, Charges(v)'
      PROVE  v # w /\ Charges(v) /\ target'[v] = target[v]
             /\ amount'[v] = amount[v] /\ due'[v] = due[v]
  BY <1>1, EndWorkers DEF Charges, Busy
<1>2. ChargesFit'
  BY <1>1 DEF ChargesFit, CreditInv
<1>3. NoDoubleCharge'
  BY DEF NoDoubleCharge, CreditInv
<1>4. QED
  BY <1>2, <1>3

\* The charge of a meter is added and its watermark advances by as much at
\* least.
LEMMA EndCharge ==
    ASSUME CreditInv, NEW w \in Workers, Charges(w), End(w),
           Advance(target[w], amount[w], due[w])
    PROVE  /\ mark' \in [Meters -> 0..MaxUnits]
           /\ charged' \in [Meters -> Nat]
           /\ ChargesFit' /\ NoDoubleCharge'
<1> DEFINE m == target[w]
<1>1. /\ m \in Meters /\ amount[w] \in 0..MaxUnits /\ due[w] \in Nat
      /\ mark[m] \in 0..MaxUnits /\ charged[m] \in Nat
      /\ MaxUnits \in Nat
  BY CreditsAssumption DEF CreditInv, CallsOK, TypeOK
<1>2. due[w] + mark[m] <= amount[w]
  BY DEF CreditInv, ChargesFit
<1>3. /\ mark' = [mark EXCEPT ![m] = amount[w]]
      /\ charged' = [charged EXCEPT ![m] = @ + due[w]]
  <2>1. amount[w] > mark[m] \/ amount[w] = mark[m]
    BY <1>1, <1>2
  <2>2. QED
    BY <2>1, <1>1 DEF Advance, CreditInv, TypeOK
<1>4. /\ mark' \in [Meters -> 0..MaxUnits]
      /\ charged' \in [Meters -> Nat]
  BY <1>1, <1>3 DEF CreditInv, TypeOK
<1>5. ASSUME NEW v \in Workers, Charges(v)'
      PROVE  v # w /\ Charges(v) /\ target'[v] = target[v]
             /\ amount'[v] = amount[v] /\ due'[v] = due[v]
  BY <1>5, EndWorkers DEF Charges, Busy
<1>6. ChargesFit'
  <2>1. ASSUME NEW v \in Workers, Charges(v)'
        PROVE  due'[v] + mark'[target'[v]] <= amount'[v]
    <3>1. target[v] # m /\ target[v] \in Meters
      BY <1>5, <2>1 DEF CreditInv, ChargesFit, CallsOK
    <3>2. mark'[target[v]] = mark[target[v]]
      BY <3>1, <1>3 DEF CreditInv, TypeOK
    <3>3. QED
      BY <1>5, <2>1, <3>2 DEF CreditInv, ChargesFit
  <2>2. QED
    BY <2>1, <1>5 DEF ChargesFit, CreditInv
<1>7. NoDoubleCharge'
  <2>1. ASSUME NEW n \in Meters PROVE charged'[n] <= mark'[n]
    <3>1. CASE n = m
      <4>1. charged'[m] = charged[m] + due[w] /\ mark'[m] = amount[w]
        BY <1>1, <1>3 DEF CreditInv, TypeOK
      <4>2. charged[m] <= mark[m]
        BY <1>1 DEF CreditInv, NoDoubleCharge
      <4>3. QED
        BY <4>1, <4>2, <1>1, <1>2, <3>1
    <3>2. CASE n # m
      BY <1>3, <3>2 DEF CreditInv, NoDoubleCharge, TypeOK
    <3>3. QED
      BY <3>1, <3>2
  <2>2. QED
    BY <2>1 DEF NoDoubleCharge
<1>8. QED
  BY <1>4, <1>6, <1>7

\* A call that begins concerns its own worker only.
LEMMA CallWorkers ==
    ASSUME CreditInv, NEW w \in Workers, NEW o \in AllOps, NEW t \in Targets,
           NEW n \in Nat, Call(w, o, t, n)
    PROVE  /\ op' \in [Workers -> AllOps]
           /\ target' \in [Workers -> Targets]
           /\ amount' \in [Workers -> Nat]
           /\ pc[w] = "idle"
           /\ op'[w] = o /\ target'[w] = t /\ amount'[w] = n
           /\ \A v \in Workers \ {w} :
                 op'[v] = op[v] /\ target'[v] = target[v] /\ amount'[v] = amount[v]
  BY DEF Call, CreditInv, TypeOK

\* A worker that goes on with its call, or begins one, keeps the invariant if
\* the account's part of it is kept and its own call is as it should be.
LEMMA StepOfOne ==
    ASSUME CreditInv, NEW w \in Workers,
           UNCHANGED account,
           pc' \in [Workers -> {"idle", "user", "commit", "parts", "apply"}],
           op' \in [Workers -> AllOps], target' \in [Workers -> Targets],
           amount' \in [Workers -> Nat], view' \in [Workers -> Balances],
           due' \in [Workers -> Nat],
           \A v \in Workers \ {w} :
              /\ pc'[v] = pc[v] /\ op'[v] = op[v] /\ target'[v] = target[v]
              /\ amount'[v] = amount[v] /\ due'[v] = due[v],
           pc'[w] \in {"user", "commit"} => op'[w] \in {"reserve", "settle", "relay"},
           op'[w] \in {"reserve", "settle"}
              => target'[w] \in Requests /\ amount'[w] \in 0..MaxHold,
           op'[w] = "post" => target'[w] \in Payments,
           op'[w] = "renew" => target'[w] \in Periods,
           op'[w] \in {"relay", "voice"} =>
              /\ target'[w] \in Meters /\ amount'[w] \in 0..MaxUnits
              /\ due'[w] + mark[target'[w]] <= amount'[w]
              /\ \A v \in Workers \ {w} : Charges(v) => target[v] # target'[w]
    PROVE  CreditInv'
<1>1. TypeOK'
  BY DEF CreditInv, TypeOK, account
<1>2. CallsOK'
  <2>1. ASSUME NEW v \in Workers
        PROVE  /\ pc'[v] \in {"user", "commit"} => op'[v] \in {"reserve", "settle", "relay"}
               /\ Busy(v)' /\ op'[v] \in {"reserve", "settle"}
                    => target'[v] \in Requests /\ amount'[v] \in 0..MaxHold
               /\ Charges(v)' => target'[v] \in Meters /\ amount'[v] \in 0..MaxUnits
               /\ Busy(v)' /\ op'[v] = "post" => target'[v] \in Payments
               /\ Busy(v)' /\ op'[v] = "renew" => target'[v] \in Periods
    <3>1. CASE v = w
      BY <3>1 DEF Busy, Charges
    <3>2. CASE v # w
      BY <3>2 DEF CreditInv, CallsOK, Busy, Charges
    <3>3. QED
      BY <3>1, <3>2
  <2>2. QED
    BY <2>1 DEF CallsOK
<1>3. \A v \in Workers \ {w} : Charges(v)' <=> Charges(v)
  BY DEF Charges, Busy
<1>4. Charges(w)' => op'[w] \in {"relay", "voice"}
  BY DEF Charges
<1>5. ChargesFit'
  BY <1>3, <1>4 DEF ChargesFit, CreditInv, account
<1>6. NoDoubleCharge'
  BY DEF NoDoubleCharge, CreditInv, account
<1>7. QED
  BY <1>1, <1>2, <1>5, <1>6 DEF CreditInv

\* A call that has nothing to do with meters begins.
LEMMA BeginOther ==
    ASSUME CreditInv, NEW w \in Workers,
           NEW o \in {"reserve", "settle", "post", "renew", "clear"},
           NEW t \in Targets, NEW n \in Nat, Call(w, o, t, n),
           NEW x \in {"user", "apply"}, pc' = [pc EXCEPT ![w] = x],
           x = "user" => o \in {"reserve", "settle"},
           o \in {"reserve", "settle"} => t \in Requests /\ n \in 0..MaxHold,
           o = "post" => t \in Payments,
           o = "renew" => t \in Periods,
           view' = view \/ view' = [view EXCEPT ![w] = bal],
           UNCHANGED <<account, due>>
    PROVE  CreditInv'
<1>1. o \in AllOps
  BY DEF AllOps
<1>2. /\ op' \in [Workers -> AllOps] /\ target' \in [Workers -> Targets]
      /\ amount' \in [Workers -> Nat]
      /\ op'[w] = o /\ target'[w] = t /\ amount'[w] = n
      /\ \A v \in Workers \ {w} :
            op'[v] = op[v] /\ target'[v] = target[v] /\ amount'[v] = amount[v]
  BY <1>1, CallWorkers
<1>3. /\ pc' \in [Workers -> {"idle", "user", "commit", "parts", "apply"}]
      /\ pc'[w] = x
      /\ \A v \in Workers \ {w} : pc'[v] = pc[v]
  BY DEF CreditInv, TypeOK
<1>4. view' \in [Workers -> Balances] /\ due' \in [Workers -> Nat]
  BY DEF CreditInv, TypeOK
<1>5. \A v \in Workers \ {w} : due'[v] = due[v]
  OBVIOUS
<1>6. QED
  BY <1>2, <1>3, <1>4, <1>5, StepOfOne

LEMMA BeginInv ==
    ASSUME CreditInv, NEW w \in Workers, Begin(w)
    PROVE  CreditInv'
<1>1. ASSUME NEW r \in Requests, NEW n \in 1..MaxHold, Reserve(w, r, n)
      PROVE  CreditInv'
  <2>1. r \in Targets /\ n \in Nat /\ n \in 0..MaxHold /\ "reserve" \in AllOps
    BY CreditsAssumption DEF Targets, AllOps
  <2>2. Call(w, "reserve", r, n)
    BY <1>1 DEF Reserve
  <2>3. /\ pc' = [pc EXCEPT ![w] = "user"]
        /\ UNCHANGED <<account, view, due>>
    BY <1>1 DEF Reserve
  <2>4. QED
    BY <2>1, <2>2, <2>3, BeginOther
<1>2. ASSUME NEW r \in Requests, NEW n \in 0..MaxHold, Settle(w, r, n)
      PROVE  CreditInv'
  <2>1. r \in Targets /\ n \in Nat /\ "settle" \in AllOps
    BY CreditsAssumption DEF Targets, AllOps
  <2>2. Call(w, "settle", r, n)
    BY <1>2 DEF Settle
  <2>3. /\ pc' = [pc EXCEPT ![w] = "user"]
        /\ UNCHANGED <<account, view, due>>
    BY <1>2 DEF Settle
  <2>4. QED
    BY <2>1, <2>2, <2>3, BeginOther
<1>3. ASSUME NEW o \in {"relay", "voice"}, NEW m \in Meters, NEW n \in 0..MaxUnits,
             Report(w, o, m, n)
      PROVE  CreditInv'
  <2>1. m \in Targets /\ n \in Nat /\ o \in AllOps
    BY CreditsAssumption DEF Targets, AllOps
  <2>2. Call(w, o, m, n)
    BY <1>3 DEF Report
  <2>3. /\ pc' = [pc EXCEPT ![w] = IF o = "relay" THEN "user" ELSE "parts"]
        /\ due' = [due EXCEPT ![w] = Due(m, n)]
        /\ UNCHANGED <<account, view>>
    BY <1>3 DEF Report
  <2>4. Due(m, n) \in Nat /\ Due(m, n) + mark[m] <= n
    BY <1>3, DueFits DEF Report, CreditInv
  <2>5. /\ pc' \in [Workers -> {"idle", "user", "commit", "parts", "apply"}]
        /\ due' \in [Workers -> Nat]
        /\ pc'[w] = IF o = "relay" THEN "user" ELSE "parts"
        /\ due'[w] = Due(m, n)
        /\ \A v \in Workers \ {w} : pc'[v] = pc[v] /\ due'[v] = due[v]
    BY <2>3, <2>4 DEF CreditInv, TypeOK
  <2>6. \A v \in Workers \ {w} : Charges(v) => target[v] # m
    BY <1>3 DEF Report, RowFree, Charges, Busy
  <2>7. /\ op' \in [Workers -> AllOps] /\ target' \in [Workers -> Targets]
        /\ amount' \in [Workers -> Nat]
        /\ op'[w] = o /\ target'[w] = m /\ amount'[w] = n
        /\ \A v \in Workers \ {w} :
              op'[v] = op[v] /\ target'[v] = target[v] /\ amount'[v] = amount[v]
    BY <2>1, <2>2, CallWorkers
  <2>8. view' \in [Workers -> Balances] /\ UNCHANGED account
    BY <2>3 DEF CreditInv, TypeOK
  <2>9. QED
    BY <2>4, <2>5, <2>6, <2>7, <2>8, StepOfOne
<1>4. ASSUME NEW p \in Payments, Post(w, p) PROVE CreditInv'
  <2>1. p \in Targets /\ 0 \in Nat /\ "post" \in AllOps
    BY DEF Targets, AllOps
  <2>2. Call(w, "post", p, 0)
    BY <1>4 DEF Post
  <2>3. /\ pc' = [pc EXCEPT ![w] = "apply"]
        /\ UNCHANGED <<account, view, due>>
    BY <1>4 DEF Post
  <2>4. QED
    BY <2>1, <2>2, <2>3, BeginOther
<1>5. ASSUME NEW p \in Periods, Renew(w, p) PROVE CreditInv'
  <2>1. p \in Targets /\ 0 \in Nat /\ "renew" \in AllOps
    BY DEF Targets, AllOps
  <2>2. Call(w, "renew", p, 0)
    BY <1>5 DEF Renew
  <2>3. /\ pc' = [pc EXCEPT ![w] = "apply"]
        /\ view' = [view EXCEPT ![w] = bal]
        /\ UNCHANGED <<account, due>>
    BY <1>5 DEF Renew
  <2>4. QED
    BY <2>1, <2>2, <2>3, BeginOther
<1>6. ASSUME Clear(w) PROVE CreditInv'
  <2>1. None \in Targets /\ 0 \in Nat /\ "clear" \in AllOps
    BY DEF Targets, AllOps
  <2>2. Call(w, "clear", None, 0)
    BY <1>6 DEF Clear
  <2>3. /\ pc' = [pc EXCEPT ![w] = "apply"]
        /\ view' = [view EXCEPT ![w] = bal]
        /\ UNCHANGED <<account, due>>
    BY <1>6 DEF Clear
  <2>4. QED
    BY <2>1, <2>2, <2>3, BeginOther
<1>7. QED
  BY <1>1, <1>2, <1>3, <1>4, <1>5, <1>6 DEF Begin, Meters

LEMMA ProgressInv ==
    ASSUME CreditInv, NEW w \in Workers, Progress(w)
    PROVE  CreditInv'
<1>1. bal \in Balances /\ view[w] \in Balances /\ due[w] \in Nat /\ amount[w] \in Nat
  BY DEF CreditInv, TypeOK
<1>2. CASE LockUser(w)
  <2>1. /\ pc' = [pc EXCEPT ![w] = "commit"]
        /\ view' = [view EXCEPT ![w] = bal]
        /\ pc[w] = "user"
        /\ UNCHANGED <<account, op, target, amount, due>>
    BY <1>2 DEF LockUser
  <2>2. Busy(w)
    BY <2>1 DEF Busy
  <2>3. QED
    BY <1>1, <2>1, <2>2, StepOfOne
    DEF CreditInv, TypeOK, CallsOK, ChargesFit, Charges
<1>3. CASE ReadParts(w)
  <2>1. /\ pc' = [pc EXCEPT ![w] = "apply"]
        /\ view' = [view EXCEPT ![w] = bal]
        /\ pc[w] = "parts"
        /\ UNCHANGED <<account, op, target, amount, due>>
    BY <1>3 DEF ReadParts
  <2>2. Busy(w)
    BY <2>1 DEF Busy
  <2>3. QED
    BY <1>1, <2>1, <2>2, StepOfOne
    DEF CreditInv, TypeOK, CallsOK, ChargesFit, Charges
<1>4. CASE CommitReserve(w)
  <2>1. /\ End(w) /\ pc[w] = "commit" /\ op[w] = "reserve"
        /\ UNCHANGED <<bal, over, mark, charged, ledger, posted, carried>>
    BY <1>4 DEF CommitReserve
  <2>2. target[w] \in Requests /\ amount[w] \in 0..MaxHold
    BY <2>1 DEF CreditInv, CallsOK, Busy
  <2>3. hold' \in [Requests -> Holds]
    <3>1. \/ hold' = hold
          \/ hold' = [hold EXCEPT ![target[w]].status = "held",
                                  ![target[w]].reserved = amount[w]]
      BY <1>4 DEF CommitReserve
    <3>2. QED
      BY <2>2, <3>1 DEF CreditInv, TypeOK, Holds
  <2>4. QED
    BY <2>1, <2>3, EndWorkers, EndMeters DEF CreditInv, TypeOK
<1>5. CASE CommitSettle(w)
  <2>1. /\ End(w) /\ pc[w] = "commit" /\ op[w] = "settle"
        /\ UNCHANGED <<over, mark, charged, ledger, posted, carried>>
    BY <1>5 DEF CommitSettle
  <2>2. target[w] \in Requests /\ amount[w] \in 0..MaxHold
    BY <2>1 DEF CreditInv, CallsOK, Busy
  <2>3. /\ hold' = hold
           \/ hold' = [hold EXCEPT ![target[w]].status = "settled",
                                  ![target[w]].settled = amount[w]]
        /\ bal' = bal \/ bal' = Minus(bal, Parts(bal, amount[w]))
    BY <1>5 DEF CommitSettle
  <2>4. hold' \in [Requests -> Holds]
    BY <2>2, <2>3 DEF CreditInv, TypeOK, Holds
  <2>5. bal' \in Balances
    BY <1>1, <2>3, PartsType, MinusType
  <2>6. QED
    BY <2>1, <2>4, <2>5, EndWorkers, EndMeters DEF CreditInv, TypeOK
<1>6. CASE CommitRelay(w)
  <2>1. /\ End(w) /\ Charges(w) /\ Advance(target[w], amount[w], due[w])
        /\ bal' = Minus(bal, Parts(bal, due[w]))
        /\ UNCHANGED <<hold, over, ledger, posted, carried>>
    BY <1>6 DEF CommitRelay, Charges, Busy
  <2>2. bal' \in Balances
    BY <1>1, <2>1, PartsType, MinusType
  <2>3. QED
    BY <2>1, <2>2, EndWorkers, EndCharge DEF CreditInv, TypeOK
<1>7. CASE CommitVoice(w)
  <2>1. /\ End(w) /\ Charges(w) /\ Advance(target[w], amount[w], due[w])
        /\ bal' = Minus(bal, Parts(view[w], due[w]))
        /\ UNCHANGED <<hold, over, ledger, posted, carried>>
    BY <1>7 DEF CommitVoice, Charges, Busy, Spent
  <2>2. bal' \in Balances
    BY <1>1, <2>1, PartsType, MinusType
  <2>3. QED
    BY <2>1, <2>2, EndWorkers, EndCharge DEF CreditInv, TypeOK
<1>8. CASE CommitPost(w)
  <2>1. /\ End(w) /\ pc[w] = "apply" /\ op[w] = "post"
        /\ UNCHANGED <<hold, over, mark, charged, carried>>
    BY <1>8 DEF CommitPost
  <2>2. target[w] \in Payments
    BY <2>1 DEF CreditInv, CallsOK, Busy
  <2>3. PICK delta \in Int :
           /\ bal' = bal \/ bal' = [bal EXCEPT !["purchased"] = @ + delta]
           /\ ledger' = ledger \/ ledger' = ledger \cup {target[w]}
           /\ posted' = posted \/ posted' = posted + delta
    <3>1. Payment \in Int /\ -Payment \in Int
      BY CreditsAssumption
    <3>2. CASE target[w] \in Refunds
      BY <1>8, <3>1, <3>2 DEF CommitPost
    <3>3. CASE target[w] \notin Refunds
      BY <1>8, <3>1, <3>3 DEF CommitPost
    <3>4. QED
      BY <3>2, <3>3
  <2>4. bal' \in Balances /\ ledger' \subseteq Payments \cup Periods /\ posted' \in Int
    BY <2>2, <2>3 DEF CreditInv, TypeOK, Balances, Buckets
  <2>5. QED
    BY <2>1, <2>4, EndWorkers, EndMeters DEF CreditInv, TypeOK
<1>9. CASE CommitRenew(w)
  <2> DEFINE c == Positive(view[w]["carried"])
             d == Positive(view[w]["current"])
  <2>1. /\ End(w) /\ pc[w] = "apply" /\ op[w] = "renew"
        /\ UNCHANGED <<hold, over, mark, charged>>
    BY <1>9 DEF CommitRenew
  <2>2. target[w] \in Periods
    BY <2>1 DEF CreditInv, CallsOK, Busy
  <2>3. c \in Int /\ d \in Int /\ Bonus \in Int
    BY <1>1, CreditsAssumption DEF Positive, Balances, Buckets
  <2>4. /\ bal' = [bal EXCEPT !["carried"] = @ - c + d, !["current"] = @ - d + Bonus]
        /\ ledger' = ledger \cup {target[w]}
        /\ posted' = posted - c + Bonus
        /\ carried' = carried \cup {target[w]}
    BY <1>9 DEF CommitRenew
  <2> HIDE DEF c, d
  <2>5. /\ bal' \in Balances /\ ledger' \subseteq Payments \cup Periods
        /\ posted' \in Int /\ carried' \subseteq Periods
    BY <2>2, <2>3, <2>4 DEF CreditInv, TypeOK, Balances, Buckets
  <2>6. QED
    BY <2>1, <2>5, EndWorkers, EndMeters DEF CreditInv, TypeOK
<1>10. CASE CommitClear(w)
  <2> DEFINE c == Positive(view[w]["carried"])
             d == Positive(view[w]["current"])
  <2>1. /\ End(w)
        /\ UNCHANGED <<hold, over, mark, charged, ledger, carried>>
    BY <1>10 DEF CommitClear
  <2>2. c \in Int /\ d \in Int
    BY <1>1 DEF Positive, Balances, Buckets
  <2>3. /\ bal' = [bal EXCEPT !["carried"] = @ - c, !["current"] = @ - d]
        /\ posted' = posted - c - d
    BY <1>10 DEF CommitClear
  <2> HIDE DEF c, d
  <2>4. bal' \in Balances /\ posted' \in Int
    BY <2>2, <2>3 DEF CreditInv, TypeOK, Balances, Buckets
  <2>5. QED
    BY <2>1, <2>4, EndWorkers, EndMeters DEF CreditInv, TypeOK
<1>11. QED
  BY <1>2, <1>3, <1>4, <1>5, <1>6, <1>7, <1>8, <1>9, <1>10 DEF Progress

\* Steps that are no part of a call leave the workers alone.
LEMMA BackgroundInv ==
    ASSUME CreditInv, Background
    PROVE  CreditInv'
<1>1. ASSUME UNCHANGED workers
      PROVE  /\ CallsOK'
             /\ \A w \in Workers : Charges(w)' <=> Charges(w)
  BY <1>1 DEF workers, CallsOK, CreditInv, Busy, Charges
<1>2. ASSUME NEW r \in Requests, Release(r) \/ Expire(r) \/ Sweep(r)
      PROVE  CreditInv'
  <2>1. UNCHANGED <<bal, mark, charged, ledger, posted, carried, workers>>
    BY <1>2 DEF Release, Expire, Sweep
  <2>2. hold' \in [Requests -> Holds] /\ over' \subseteq Requests
    <3>1. CASE Release(r)
      BY <3>1 DEF Release, CreditInv, TypeOK, Holds
    <3>2. CASE Expire(r)
      BY <3>2 DEF Expire, CreditInv, TypeOK
    <3>3. CASE Sweep(r)
      BY <3>3 DEF Sweep, CreditInv, TypeOK, Holds
    <3>4. QED
      BY <1>2, <3>1, <3>2, <3>3
  <2>3. TypeOK'
    BY <2>1, <2>2 DEF TypeOK, CreditInv, workers
  <2>4. ChargesFit' /\ NoDoubleCharge'
    BY <1>1, <2>1 DEF ChargesFit, NoDoubleCharge, CreditInv, workers
  <2>5. QED
    BY <1>1, <2>1, <2>3, <2>4 DEF CreditInv
<1>3. ASSUME NEW o \in {"relay", "voice"}, NEW m \in Meters, NEW n \in 1..MaxUnits,
             ReportFree(o, m, n)
      PROVE  CreditInv'
  <2>1. /\ RowFree(m)
        /\ mark' = [mark EXCEPT ![m] = IF n > @ THEN n ELSE @]
        /\ charged' = [charged EXCEPT ![m] = @ + 0]
        /\ UNCHANGED <<bal, hold, over, ledger, posted, carried, workers>>
    BY <1>3 DEF ReportFree, Advance
  <2>2. n \in 0..MaxUnits /\ n \in Nat /\ mark[m] \in Nat /\ charged[m] \in Nat
        /\ charged[m] <= mark[m]
    BY CreditsAssumption DEF CreditInv, TypeOK, NoDoubleCharge
  <2>3. mark' \in [Meters -> 0..MaxUnits]
    BY <2>1, <2>2 DEF CreditInv, TypeOK
  <2>4. charged' = charged
    BY <2>1, <2>2 DEF CreditInv, TypeOK
  <2>5. TypeOK'
    BY <2>1, <2>3, <2>4 DEF CreditInv, TypeOK, workers
  <2>6. NoDoubleCharge'
    BY <2>1, <2>2, <2>4 DEF CreditInv, TypeOK, NoDoubleCharge
  <2>7. \A w \in Workers : Charges(w) => target[w] # m /\ target[w] \in Meters
    BY <2>1 DEF RowFree, Charges, Busy, CreditInv, CallsOK
  <2>8. ChargesFit'
    BY <1>1, <2>1, <2>7 DEF ChargesFit, CreditInv, TypeOK, workers
  <2>9. QED
    BY <1>1, <2>1, <2>5, <2>6, <2>8 DEF CreditInv
<1>4. QED
  BY <1>2, <1>3 DEF Background, Meters

LEMMA NextInv == CreditInv /\ [Next]_vars => CreditInv'
<1> SUFFICES ASSUME CreditInv, [Next]_vars PROVE CreditInv'
  OBVIOUS
<1>1. ASSUME NEW w \in Workers, Rollback(w) PROVE CreditInv'
  <2>1. End(w) /\ UNCHANGED account
    BY <1>1 DEF Rollback
  <2>2. UNCHANGED <<mark, charged>>
    BY <2>1 DEF account
  <2>3. TypeOK'
    BY <2>1, EndWorkers DEF CreditInv, TypeOK, account
  <2>4. QED
    BY <2>1, <2>2, <2>3, EndWorkers, EndMeters DEF CreditInv
<1>2. CASE UNCHANGED vars
  BY <1>2 DEF vars, account, workers, CreditInv, TypeOK, CallsOK, ChargesFit,
              NoDoubleCharge, Busy, Charges
<1>3. CASE Background
  BY <1>3, BackgroundInv
<1>4. CASE \E w \in Workers : Begin(w) \/ Progress(w) \/ Rollback(w)
  BY <1>1, <1>4, BeginInv, ProgressInv
<1>5. QED
  BY <1>2, <1>3, <1>4 DEF Next

LEMMA InvAlways == Spec => []CreditInv
  BY InitInv, NextInv, PTL DEF Spec

-----------------------------------------------------------------------------
(* Theorems                                                                *)

\* Every variable keeps its type: in particular a call that waits for a lock
\* still has the arguments that its operation needs.
THEOREM TypeCorrect == Spec => []TypeOK
<1>1. CreditInv => TypeOK
  BY DEF CreditInv
<1>2. QED
  BY <1>1, InvAlways, PTL

\* chargeRelayBytes and chargeVoiceUsage charge no reported unit twice, for
\* any number of concurrent, repeated and reordered reports.
THEOREM MetersChargeOnce == Spec => []NoDoubleCharge
<1>1. CreditInv => NoDoubleCharge
  BY DEF CreditInv
<1>2. QED
  BY <1>1, InvAlways, PTL

\* Whatever settles, releases and sweeps at the same time, a hold that was
\* settled or released stays as it is.
THEOREM HoldsEndOnce == Spec => HoldFinal
<1>1. ASSUME CreditInv, [Next]_vars, NEW r \in Requests,
             hold[r].status \in {"settled", "released"}
      PROVE  hold'[r] = hold[r]
  <2>1. hold \in [Requests -> Holds]
    BY <1>1 DEF CreditInv, TypeOK
  <2>2. ASSUME NEW w \in Workers, CommitReserve(w) PROVE hold'[r] = hold[r]
    <3>1. CASE target[w] = r
      BY <1>1, <2>2, <3>1 DEF CommitReserve
    <3>2. CASE target[w] # r
      BY <2>1, <2>2, <3>2 DEF CommitReserve
    <3>3. QED
      BY <3>1, <3>2
  <2>3. ASSUME NEW w \in Workers, CommitSettle(w) PROVE hold'[r] = hold[r]
    <3>1. CASE target[w] = r
      BY <1>1, <2>3, <3>1 DEF CommitSettle, Open
    <3>2. CASE target[w] # r
      BY <2>1, <2>3, <3>2 DEF CommitSettle
    <3>3. QED
      BY <3>1, <3>2
  <2>4. ASSUME NEW w \in Workers, Progress(w) PROVE hold'[r] = hold[r]
    BY <2>2, <2>3, <2>4
    DEF Progress, LockUser, CommitRelay, ReadParts, CommitVoice, CommitPost,
        CommitRenew, CommitClear, account
  <2>5. ASSUME NEW w \in Workers, Begin(w) \/ Rollback(w) PROVE hold'[r] = hold[r]
    BY <2>5 DEF Begin, Rollback, Reserve, Settle, Report, Post, Renew, Clear, account
  <2>6. ASSUME NEW q \in Requests, Release(q) \/ Expire(q) \/ Sweep(q)
        PROVE  hold'[r] = hold[r]
    <3>1. CASE q = r
      BY <1>1, <2>6, <3>1 DEF Release, Expire, Sweep, Open, Lapsed
    <3>2. CASE q # r
      BY <2>1, <2>6, <3>2 DEF Release, Expire, Sweep
    <3>3. QED
      BY <3>1, <3>2
  <2>7. CASE Background
    BY <2>6, <2>7 DEF Background, ReportFree
  <2>8. CASE UNCHANGED vars
    BY <2>8 DEF vars, account
  <2>9. QED
    BY <1>1, <2>4, <2>5, <2>7, <2>8 DEF Next
<1>2. CreditInv /\ [Next]_vars
        => [\A r \in Requests : hold[r].status \in {"settled", "released"}
               => hold'[r] = hold[r]]_vars
  BY <1>1
<1>3. QED
  BY <1>2, InvAlways, PTL DEF Spec, HoldFinal

-----------------------------------------------------------------------------
(* Bonus buckets                                                           *)

\* The parts of a debit fit the buckets they were computed from.
LEMMA DebitFits ==
    ASSUME NEW b \in Balances, NEW n \in Nat, b["carried"] >= 0, b["current"] >= 0
    PROVE  /\ Minus(b, Parts(b, n))["carried"] >= 0
           /\ Minus(b, Parts(b, n))["current"] >= 0
<1>1. b["carried"] \in Int /\ b["current"] \in Int
  BY DEF Balances, Buckets
<1> DEFINE c == Least(Positive(b["carried"]), n)
           d == Least(Positive(b["current"]), n - c)
<1>2. c \in Int /\ c <= b["carried"] /\ c <= n
  BY <1>1 DEF Least, Positive
<1> HIDE DEF c
<1>3. d \in Int /\ d <= b["current"]
  BY <1>1, <1>2 DEF Least, Positive
<1> HIDE DEF d
<1>4. Parts(b, n)["carried"] = c /\ Parts(b, n)["current"] = d
  BY DEF Parts, c, d, Buckets
<1>5. QED
  BY <1>1, <1>2, <1>3, <1>4 DEF Minus, Buckets

BonusInv == CreditInv /\ BonusNotOverdrawn
              /\ \A w \in Workers : Busy(w) => op[w] \in Ops

\* Without the operations that use balances read outside the lock (voice,
\* renewals, clearing), debits leave no bonus bucket in debt: settlements and
\* relay charges compute their parts from the row they have locked.
THEOREM BonusKept ==
    ASSUME Ops \subseteq {"reserve", "settle", "relay", "post"}
    PROVE  Spec => []BonusNotOverdrawn
<1>1. Init => BonusInv
  <2>1. Init => BonusNotOverdrawn
    BY CreditsAssumption DEF Init, BonusNotOverdrawn, Buckets
  <2>2. Init => \A w \in Workers : Busy(w) => op[w] \in Ops
    BY DEF Init, Busy
  <2>3. QED
    BY <2>1, <2>2, InitInv DEF BonusInv
<1>2. ASSUME BonusInv, [Next]_vars PROVE BonusInv'
  <2>1. CreditInv /\ CreditInv' /\ bal \in Balances
    BY <1>2, NextInv DEF BonusInv, CreditInv, TypeOK
  <2>2. \A w \in Workers : Busy(w)' => op'[w] \in Ops
    <3>1. ASSUME NEW w \in Workers, Begin(w)
          PROVE  /\ op'[w] \in Ops
                 /\ \A v \in Workers \ {w} : op'[v] = op[v] /\ pc'[v] = pc[v]
      BY <2>1, <3>1
      DEF Begin, Reserve, Settle, Report, Post, Renew, Clear, Call, CreditInv, TypeOK
    <3>2. ASSUME NEW w \in Workers, End(w)
          PROVE  \A v \in Workers : Busy(v)' => op'[v] \in Ops
      BY <1>2, <2>1, <3>2, EndWorkers DEF Busy, BonusInv
    <3>3. ASSUME NEW w \in Workers, LockUser(w) \/ ReadParts(w)
          PROVE  \A v \in Workers : Busy(v)' => op'[v] \in Ops
      BY <1>2, <2>1, <3>3 DEF LockUser, ReadParts, Busy, BonusInv, CreditInv, TypeOK
    <3>4. CASE Background
      BY <1>2, <3>4 DEF Background, Release, Expire, Sweep, ReportFree, workers,
                        Busy, BonusInv
    <3>5. CASE UNCHANGED vars
      BY <1>2, <3>5 DEF vars, workers, Busy, BonusInv
    <3>6. ASSUME NEW w \in Workers, Progress(w) \/ Rollback(w)
          PROVE  \A v \in Workers : Busy(v)' => op'[v] \in Ops
      <4>1. End(w) \/ LockUser(w) \/ ReadParts(w)
        BY <3>6 DEF Progress, Rollback, CommitReserve, CommitSettle, CommitRelay,
                    CommitVoice, CommitPost, CommitRenew, CommitClear
      <4>2. QED
        BY <3>2, <3>3, <4>1
    <3>7. ASSUME NEW w \in Workers, Begin(w)
          PROVE  \A v \in Workers : Busy(v)' => op'[v] \in Ops
      BY <1>2, <3>1, <3>7 DEF Busy, BonusInv
    <3>8. QED
      BY <1>2, <3>4, <3>5, <3>6, <3>7 DEF Next
  <2>3. BonusNotOverdrawn'
    <3>1. ASSUME NEW n \in Nat, bal' = Minus(bal, Parts(bal, n))
          PROVE  BonusNotOverdrawn'
      BY <1>2, <2>1, <3>1, DebitFits DEF BonusInv, BonusNotOverdrawn
    <3>2. ASSUME bal' = bal PROVE BonusNotOverdrawn'
      BY <1>2, <3>2 DEF BonusInv, BonusNotOverdrawn
    <3>3. ASSUME NEW w \in Workers, CommitSettle(w) PROVE BonusNotOverdrawn'
      <4>1. amount[w] \in Nat
        BY <2>1 DEF CreditInv, TypeOK
      <4>2. bal' = bal \/ bal' = Minus(bal, Parts(bal, amount[w]))
        BY <3>3 DEF CommitSettle
      <4>3. QED
        BY <3>1, <3>2, <4>1, <4>2
    <3>4. ASSUME NEW w \in Workers, CommitRelay(w) PROVE BonusNotOverdrawn'
      <4>1. due[w] \in Nat
        BY <2>1 DEF CreditInv, TypeOK
      <4>2. bal' = Minus(bal, Parts(bal, due[w]))
        BY <3>4 DEF CommitRelay
      <4>3. QED
        BY <3>1, <4>1, <4>2
    <3>5. ASSUME NEW w \in Workers, CommitPost(w) PROVE BonusNotOverdrawn'
      <4>1. bal'["carried"] = bal["carried"] /\ bal'["current"] = bal["current"]
        BY <2>1, <3>5 DEF CommitPost, Balances, Buckets
      <4>2. QED
        BY <1>2, <4>1 DEF BonusInv, BonusNotOverdrawn
    <3>6. ASSUME NEW w \in Workers
          PROVE  ~CommitVoice(w) /\ ~CommitRenew(w) /\ ~CommitClear(w)
      BY <1>2 DEF CommitVoice, CommitRenew, CommitClear, BonusInv, Busy
    <3>7. ASSUME NEW w \in Workers, Progress(w) PROVE BonusNotOverdrawn'
      <4>1. \/ CommitSettle(w) \/ CommitRelay(w) \/ CommitPost(w) \/ bal' = bal
        BY <3>6, <3>7 DEF Progress, LockUser, ReadParts, CommitReserve, account
      <4>2. QED
        BY <3>2, <3>3, <3>4, <3>5, <4>1
    <3>8. ASSUME NEW w \in Workers, Begin(w) \/ Rollback(w) PROVE bal' = bal
      BY <3>8 DEF Begin, Rollback, Reserve, Settle, Report, Post, Renew, Clear, account
    <3>9. ASSUME Background \/ UNCHANGED vars PROVE bal' = bal
      BY <3>9 DEF Background, Release, Expire, Sweep, ReportFree, vars, account
    <3>10. QED
      BY <1>2, <3>2, <3>7, <3>8, <3>9 DEF Next
  <2>4. QED
    BY <2>1, <2>2, <2>3 DEF BonusInv
<1>3. BonusInv => BonusNotOverdrawn
  BY DEF BonusInv
<1>4. QED
  BY <1>1, <1>2, <1>3, PTL DEF Spec
-----------------------------------------------------------------------------
(* Credits implements Ledger                                               *)

\* As long as relays are in use, the balance is so far above the overdraft
\* limit that no report reaches it.
OverdraftFar == "relay" \in Ops => Total(bal) - Floor >= MaxUnits

\* The worker that has locked the user's row sees it as it is, and nobody else
\* has it.
RowLocked ==
    /\ \A w \in Workers : pc[w] = "commit" => view[w] = bal
    /\ \A v, w \in Workers : pc[v] = "commit" /\ pc[w] = "commit" => v = w

\* A relay charge is all that its report leaves unpaid: the limit has not cut
\* it, and the watermark is still where it was read.
WholeCharges ==
    \A w \in Workers :
        /\ Busy(w) => op[w] \in Ops
        /\ Busy(w) /\ op[w] = "reserve" => amount[w] \in 1..MaxHold
        /\ Busy(w) /\ op[w] = "relay" =>
              due[w] = amount[w] - mark[target[w]] /\ due[w] > 0 /\ target[w] \in Relays

RefInv == CreditInv /\ RowLocked /\ WholeCharges

\* Both modules add up the same holds.
LEMMA SameHeld == ASSUME NEW R PROVE HeldBy(R) = L!ActiveHeld(R)
  BY DEF HeldBy, L!ActiveHeld, MapThenSumSet, L!MapThenSumSet,
         MapThenFoldSet, L!MapThenFoldSet

\* They see the same total, and take a debit from the same buckets.
LEMMA SameDebit ==
    ASSUME bal \in Balances, NEW n \in Nat, bal' = Minus(bal, Parts(bal, n))
    PROVE  L!DebitBuckets(n)
<1> DEFINE c == Least(Positive(bal["carried"]), n)
           d == Least(Positive(bal["current"]), n - c)
<1>1. L!Lower(L!AtLeastZero(bal["carried"]), n) = c
  BY DEF L!Lower, L!AtLeastZero, Least, Positive
<1>2. L!Lower(L!AtLeastZero(bal["current"]), n - c) = d
  BY DEF L!Lower, L!AtLeastZero, Least, Positive
<1>3. c \in Int /\ d \in Int
  BY DEF Least, Positive, Balances, Buckets
<1> HIDE DEF c, d
<1>4. bal' = [bal EXCEPT !["carried"] = @ - c, !["current"] = @ - d,
                         !["purchased"] = @ - (n - c - d)]
  <2>1. bal' = [k \in Buckets |-> bal[k] - CASE k = "carried" -> c
                                             [] k = "current" -> d
                                             [] OTHER -> n - c - d]
    BY DEF Minus, Parts, c, d
  <2>2. bal' \in [Buckets -> Int] /\ bal \in [Buckets -> Int]
    BY <1>3, <2>1 DEF Balances, Buckets
  <2>3. /\ bal'["carried"] = bal["carried"] - c /\ bal'["current"] = bal["current"] - d
        /\ bal'["purchased"] = bal["purchased"] - (n - c - d)
    BY <2>1 DEF Buckets
  <2>4. QED
    BY <2>2, <2>3 DEF Buckets
<1>5. QED
  BY <1>1, <1>2, <1>4 DEF L!DebitBuckets

LEMMA RefInit == Init => RefInv /\ L!LedgerInit
<1> SUFFICES ASSUME Init PROVE RefInv /\ L!LedgerInit
  OBVIOUS
<1>1. RefInv
  BY InitInv DEF Init, RefInv, RowLocked, WholeCharges, Busy
<1>2. bal = [purchased |-> StartPurchased, carried |-> StartCarried,
             current |-> StartCurrent]
  BY DEF Init, Buckets
<1>3. L!LedgerInit
  BY <1>2 DEF Init, L!LedgerInit
<1>4. QED
  BY <1>1, <1>3

\* What a transaction that ends leaves of the locks and charges of the others:
\* who changes the balances has the row or finds it free.
LEMMA EndRefs ==
    ASSUME RefInv, NEW w \in Workers, pc[w] # "idle", End(w),
           bal' = bal \/ pc[w] = "commit" \/ UserFree,
           \A m \in Meters : m # target[w] \/ ~Charges(w) => mark'[m] = mark[m]
    PROVE  RowLocked' /\ WholeCharges'
<1>1. /\ pc'[w] = "idle"
      /\ \A v \in Workers \ {w} :
            /\ pc'[v] = pc[v] /\ op'[v] = op[v] /\ target'[v] = target[v]
            /\ amount'[v] = amount[v] /\ due'[v] = due[v]
  BY EndWorkers DEF RefInv
<1>2. \A v \in Workers \ {w} : view'[v] = view[v]
  BY DEF End, RefInv, CreditInv, TypeOK
<1>3. RowLocked'
  <2>1. ASSUME NEW v \in Workers, pc'[v] = "commit" PROVE view'[v] = bal'
    BY <1>1, <1>2, <2>1 DEF RefInv, RowLocked, UserFree
  <2>2. ASSUME NEW u \in Workers, NEW v \in Workers, pc'[u] = "commit", pc'[v] = "commit"
        PROVE  u = v
    BY <1>1, <2>2 DEF RefInv, RowLocked
  <2>3. QED
    BY <2>1, <2>2 DEF RowLocked
<1>4. WholeCharges'
  <2>1. ASSUME NEW v \in Workers, Busy(v)'
        PROVE  /\ op'[v] \in Ops
               /\ op'[v] = "reserve" => amount'[v] \in 1..MaxHold
               /\ op'[v] = "relay" =>
                     /\ due'[v] = amount'[v] - mark'[target'[v]] /\ due'[v] > 0
                     /\ target'[v] \in Relays
    <3>1. v # w /\ Busy(v)
      BY <1>1, <2>1 DEF Busy
    <3>2. op[v] = "relay" => mark'[target[v]] = mark[target[v]]
      BY <3>1 DEF RefInv, WholeCharges, CreditInv, ChargesFit, Charges, Meters
    <3>3. QED
      BY <1>1, <3>1, <3>2 DEF RefInv, WholeCharges
  <2>2. QED
    BY <2>1 DEF WholeCharges
<1>5. QED
  BY <1>3, <1>4

\* A worker that begins a call does not touch what others have found.
LEMMA BeginRefs ==
    ASSUME RefInv, OverdraftFar, NEW w \in Workers, Begin(w)
    PROVE  RowLocked' /\ WholeCharges'
<1> DEFINE Rest == \A v \in Workers \ {w} :
              /\ pc'[v] = pc[v] /\ op'[v] = op[v] /\ target'[v] = target[v]
              /\ amount'[v] = amount[v] /\ due'[v] = due[v] /\ view'[v] = view[v]
           Mine == /\ pc'[w] # "commit" /\ op'[w] \in Ops
                   /\ op'[w] = "reserve" => amount'[w] \in 1..MaxHold
                   /\ op'[w] = "relay" =>
                        /\ due'[w] = amount'[w] - mark[target'[w]] /\ due'[w] > 0
                        /\ target'[w] \in Relays
<1> USE DEF RefInv, CreditInv, TypeOK
<1>1. UNCHANGED account
  BY DEF Begin, Reserve, Settle, Report, Post, Renew, Clear
<1>2. Rest
  BY DEF Begin, Reserve, Settle, Report, Post, Renew, Clear, Call
<1>3. Mine
  <2>1. ASSUME NEW r \in Requests, NEW n \in 1..MaxHold, Reserve(w, r, n) PROVE Mine
    BY <2>1 DEF Reserve, Call
  <2>2. ASSUME NEW r \in Requests, NEW n \in 0..MaxHold, Settle(w, r, n) PROVE Mine
    BY <2>2 DEF Settle, Call
  <2>3. ASSUME NEW m \in Relays, NEW n \in 0..MaxUnits, Report(w, "relay", m, n) PROVE Mine
    <3>1. /\ op'[w] = "relay" /\ target'[w] = m /\ amount'[w] = n /\ "relay" \in Ops
          /\ due'[w] = Due(m, n) /\ Due(m, n) > 0 /\ pc'[w] = "user"
      BY <2>3 DEF Report, Call
    <3>2. Total(bal) \in Int /\ Floor \in Int /\ mark[m] \in 0..MaxUnits /\ MaxUnits \in Nat
      BY TotalType, CreditsAssumption DEF Floor, Meters
    <3>3. Due(m, n) = n - mark[m]
      BY <3>1, <3>2 DEF Due, Least, Positive, OverdraftFar
    <3>4. QED
      BY <3>1, <3>3
  <2>4. ASSUME NEW m \in Voices, NEW n \in 0..MaxUnits, Report(w, "voice", m, n) PROVE Mine
    BY <2>4 DEF Report, Call
  <2>5. ASSUME NEW p \in Payments, Post(w, p) PROVE Mine
    BY <2>5 DEF Post, Call
  <2>6. ASSUME NEW p \in Periods, Renew(w, p) PROVE Mine
    BY <2>6 DEF Renew, Call
  <2>7. CASE Clear(w)
    BY <2>7 DEF Clear, Call
  <2>8. QED
    BY <2>1, <2>2, <2>3, <2>4, <2>5, <2>6, <2>7 DEF Begin
<1> HIDE DEF Rest, Mine
<1>4. RowLocked'
  BY <1>1, <1>2, <1>3 DEF RowLocked, account, Rest, Mine
<1>5. WholeCharges'
  <2>1. ASSUME NEW v \in Workers, Busy(v)'
        PROVE  /\ op'[v] \in Ops
               /\ op'[v] = "reserve" => amount'[v] \in 1..MaxHold
               /\ op'[v] = "relay" =>
                     /\ due'[v] = amount'[v] - mark'[target'[v]] /\ due'[v] > 0
                     /\ target'[v] \in Relays
    <3>1. CASE v = w
      BY <1>1, <1>3, <3>1 DEF account, Mine
    <3>2. CASE v # w
      BY <1>1, <1>2, <2>1, <3>2 DEF account, Rest, WholeCharges, Busy
    <3>3. QED
      BY <3>1, <3>2
  <2>2. QED
    BY <2>1 DEF WholeCharges
<1>6. QED
  BY <1>4, <1>5

LEMMA ProgressRefs ==
    ASSUME RefInv, NEW w \in Workers, Progress(w) \/ Rollback(w)
    PROVE  RowLocked' /\ WholeCharges'
<1> DEFINE Keeps == \A m \in Meters : m # target[w] \/ ~Charges(w) => mark'[m] = mark[m]
<1>1. CASE LockUser(w) \/ ReadParts(w)
  <2>1. /\ UNCHANGED <<account, op, target, amount, due>>
        /\ \A v \in Workers \ {w} : pc'[v] = pc[v] /\ view'[v] = view[v]
        /\ pc[w] # "idle"
        /\ pc'[w] = "commit" => UserFree /\ view'[w] = bal
    BY <1>1 DEF LockUser, ReadParts, RefInv, CreditInv, TypeOK
  <2>2. RowLocked'
    BY <2>1 DEF RefInv, RowLocked, account, UserFree
  <2>3. WholeCharges'
    BY <2>1 DEF RefInv, WholeCharges, account, Busy
  <2>4. QED
    BY <2>2, <2>3
<1>2. CASE CommitReserve(w) \/ CommitSettle(w) \/ CommitPost(w) \/ CommitRenew(w) \/ CommitClear(w)
  <2>1. mark' = mark /\ End(w) /\ pc[w] # "idle" /\ (pc[w] = "commit" \/ UserFree)
    BY <1>2 DEF CommitReserve, CommitSettle, CommitPost, CommitRenew, CommitClear
  <2>2. QED
    BY <2>1, EndRefs
<1>3. CASE CommitRelay(w) \/ CommitVoice(w)
  <2>1. End(w) /\ pc[w] # "idle" /\ (pc[w] = "commit" \/ UserFree)
        /\ mark' = [mark EXCEPT ![target[w]] = IF amount[w] > @ THEN amount[w] ELSE @]
    BY <1>3 DEF CommitRelay, CommitVoice, Advance
  <2>2. Charges(w)
    BY <1>3 DEF Charges, Busy, CommitRelay, CommitVoice
  <2>3. Keeps
    BY <2>1, <2>2 DEF RefInv, CreditInv, TypeOK
  <2>4. QED
    BY <2>1, <2>3, EndRefs
<1>4. CASE Rollback(w)
  <2>1. End(w) /\ pc[w] # "idle" /\ mark' = mark /\ bal' = bal
    BY <1>4 DEF Rollback, account
  <2>2. QED
    BY <2>1, EndRefs
<1>5. QED
  BY <1>1, <1>2, <1>3, <1>4 DEF Progress

LEMMA RefNext == RefInv /\ OverdraftFar /\ [Next]_vars => RefInv'
<1> SUFFICES ASSUME RefInv, OverdraftFar, [Next]_vars PROVE RefInv'
  OBVIOUS
<1>1. CreditInv'
  BY NextInv DEF RefInv
<1>2. CASE Background
  <2>1. /\ bal' = bal /\ UNCHANGED workers
        /\ \A m \in Meters : mark'[m] = mark[m] \/ RowFree(m)
    BY <1>2 DEF Background, Release, Expire, Sweep, ReportFree, Advance, RefInv,
                CreditInv, TypeOK
  <2>2. RowLocked'
    BY <2>1 DEF RefInv, RowLocked, workers
  <2>3. WholeCharges'
    BY <2>1 DEF RefInv, WholeCharges, workers, RowFree, Busy, Meters
  <2>4. QED
    BY <1>1, <2>2, <2>3 DEF RefInv
<1>3. CASE UNCHANGED vars
  BY <1>1, <1>3 DEF RefInv, RowLocked, WholeCharges, Busy, vars, account, workers
<1>4. CASE \E w \in Workers : Begin(w) \/ Progress(w) \/ Rollback(w)
  BY <1>1, <1>4, BeginRefs, ProgressRefs DEF RefInv
<1>5. QED
  BY <1>2, <1>3, <1>4 DEF Next

-----------------------------------------------------------------------------
\* Each commit is one operation of the ledger, or refuses and changes nothing.
LEMMA CommitIsOperation ==
    ASSUME Ops \subseteq {"reserve", "settle", "relay", "post"},
           RefInv, OverdraftFar, NEW w \in Workers, Progress(w)
    PROVE  L!LedgerNext \/ UNCHANGED L!ledgerVars
<1> USE DEF RefInv, CreditInv, TypeOK
<1>1. Busy(w) => op[w] \in {"reserve", "settle", "relay", "post"}
  BY DEF WholeCharges
<1>2. pc[w] = "commit" => Total(view[w]) = L!Balance
  BY DEF RowLocked, Total, L!Balance
<1>3. CASE CommitReserve(w)
  <2> DEFINE r == target[w]  n == amount[w]
  <2>1. r \in Requests /\ n \in 0..MaxHold /\ n > 0
    BY <1>3, CreditsAssumption DEF CommitReserve, CallsOK, WholeCharges, Busy
  <2>2. UNCHANGED <<bal, over, mark, charged, ledger>>
    BY <1>3 DEF CommitReserve
  <2>3. CASE UNCHANGED hold
    BY <2>2, <2>3 DEF L!ledgerVars
  <2>4. CASE hold' # hold
    <3>1. /\ n <= L!Balance - HeldBy(Requests) /\ hold[r].status = "none"
          /\ hold' = [hold EXCEPT ![r].status = "held", ![r].reserved = n]
      BY <1>2, <1>3, <2>4 DEF CommitReserve
    <3>2. L!ReserveCreditHold(r, n)
      BY <2>2, <3>1, SameHeld DEF L!ReserveCreditHold
    <3>3. QED
      BY <2>1, <3>2 DEF L!LedgerNext
  <2>5. QED
    BY <2>3, <2>4
<1>4. CASE CommitSettle(w)
  <2> DEFINE r == target[w]  n == amount[w]
  <2>1. r \in Requests /\ n \in 0..MaxHold /\ n \in Nat
    BY <1>4 DEF CommitSettle, CallsOK, Busy
  <2>2. UNCHANGED <<over, mark, charged, ledger>>
    BY <1>4 DEF CommitSettle
  <2>3. CASE UNCHANGED <<bal, hold>>
    BY <2>2, <2>3 DEF L!ledgerVars
  <2>4. CASE ~UNCHANGED <<bal, hold>>
    <3>1. /\ n <= L!Balance - HeldBy(Requests \ {r}) /\ hold[r].status \in {"held", "expired"}
          /\ bal' = Minus(bal, Parts(bal, n))
          /\ hold' = [hold EXCEPT ![r].status = "settled", ![r].settled = n]
      BY <1>2, <1>4, <2>4 DEF CommitSettle, Open, OtherHolds
    <3>2. L!DebitBuckets(n)
      BY <2>1, <3>1, SameDebit
    <3>3. L!SettleCreditHold(r, n)
      BY <2>2, <3>1, <3>2, SameHeld DEF L!SettleCreditHold
    <3>4. QED
      BY <2>1, <3>3 DEF L!LedgerNext
  <2>5. QED
    BY <2>3, <2>4
<1>5. CASE CommitRelay(w)
  <2> DEFINE m == target[w]  n == amount[w]
  <2>1. /\ m \in Relays /\ m \in Meters /\ n \in 0..MaxUnits /\ "relay" \in Ops
        /\ due[w] = n - mark[m] /\ due[w] > 0 /\ mark[m] \in Nat
    BY <1>5 DEF CommitRelay, CallsOK, WholeCharges, Busy, Charges, Meters
  <2>2. /\ bal' = Minus(bal, Parts(bal, due[w])) /\ UNCHANGED <<hold, over, ledger>>
        /\ mark' = [mark EXCEPT ![m] = IF n > @ THEN n ELSE @]
        /\ charged' = [charged EXCEPT ![m] = @ + due[w]]
    BY <1>5 DEF CommitRelay, Advance
  <2>3. L!Balance \in Int /\ Overdraft \in Nat /\ MaxUnits \in Nat /\ L!Balance + Overdraft >= MaxUnits
    BY <2>1, CreditsAssumption DEF OverdraftFar, Total, Floor, L!Balance, Balances, Buckets
  <2>4. L!Lower(L!AtLeastZero(n - mark[m]), L!AtLeastZero(L!Balance + Overdraft)) = due[w]
    BY <2>1, <2>3 DEF L!Lower, L!AtLeastZero
  <2>5. L!DebitBuckets(due[w])
    BY <2>2, SameDebit
  <2>6. L!ChargeRelayBytes(m, n)
    BY <2>2, <2>4, <2>5 DEF L!ChargeRelayBytes
  <2>7. QED
    BY <2>1, <2>6 DEF L!LedgerNext
<1>6. CASE CommitPost(w)
  <2> DEFINE p == target[w]
  <2>1. p \in Recharges \cup Refunds
    BY <1>6 DEF CommitPost, CallsOK, Busy, Payments
  <2>2. UNCHANGED <<hold, over, mark, charged>>
    BY <1>6 DEF CommitPost
  <2>3. CASE UNCHANGED <<bal, ledger>>
    BY <2>2, <2>3 DEF L!ledgerVars
  <2>4. CASE ~UNCHANGED <<bal, ledger>>
    <3>1. /\ p \notin ledger /\ ledger' = ledger \cup {p}
          /\ bal' = [bal EXCEPT !["purchased"] = @ + IF p \in Refunds THEN -Payment ELSE Payment]
      BY <1>6, <2>4 DEF CommitPost, NewKey
    <3>2. bal' = [bal EXCEPT !["purchased"] = IF p \in Refunds THEN @ - Payment ELSE @ + Payment]
      BY <3>1, CreditsAssumption DEF Balances, Buckets
    <3>3. L!AppendCreditLedger(p)
      BY <2>2, <3>1, <3>2 DEF L!AppendCreditLedger
    <3>4. QED
      BY <2>1, <3>3 DEF L!LedgerNext
  <2>5. QED
    BY <2>3, <2>4
<1>7. CASE LockUser(w) \/ ReadParts(w)
  BY <1>7 DEF LockUser, ReadParts, account, L!ledgerVars
<1>8. ~CommitVoice(w) /\ ~CommitRenew(w) /\ ~CommitClear(w)
  BY <1>1 DEF CommitVoice, CommitRenew, CommitClear, Busy
<1>9. QED
  BY <1>3, <1>4, <1>5, <1>6, <1>7, <1>8 DEF Progress

\* What needs no transaction of several statements is the same in both.
LEMMA BackgroundIsOperation ==
    ASSUME Ops \subseteq {"reserve", "settle", "relay", "post"},
           RefInv, OverdraftFar, Background
    PROVE  L!LedgerNext
<1> USE DEF RefInv, CreditInv, TypeOK
<1>1. ASSUME NEW r \in Requests, Release(r) \/ Expire(r) \/ Sweep(r) PROVE L!LedgerNext
  <2>1. L!ReleaseCreditHold(r) \/ L!ExpiresAtPasses(r) \/ L!SweepExpiredCreditHolds(r)
    BY <1>1 DEF Release, Expire, Sweep, Open, Lapsed, L!ReleaseCreditHold,
                L!ExpiresAtPasses, L!SweepExpiredCreditHolds
  <2>2. QED
    BY <2>1 DEF L!LedgerNext
<1>2. ASSUME NEW m \in Relays, NEW n \in 1..MaxUnits, ReportFree("relay", m, n)
      PROVE  L!LedgerNext
  <2>1. /\ m \in Meters /\ n \in 0..MaxUnits /\ "relay" \in Ops /\ mark[m] \in Nat
        /\ charged[m] \in Nat /\ Due(m, n) = 0
        /\ mark' = [mark EXCEPT ![m] = IF n > @ THEN n ELSE @]
        /\ charged' = [charged EXCEPT ![m] = @ + 0]
        /\ UNCHANGED <<bal, hold, over, ledger>>
    BY <1>2 DEF ReportFree, Advance, Meters
  <2>2. /\ Total(bal) \in Int /\ Floor = -Overdraft /\ Overdraft \in Nat /\ MaxUnits \in Nat
        /\ L!Balance = Total(bal)
    BY TotalType, CreditsAssumption DEF Floor, Total, L!Balance
  <2>3. n - mark[m] <= 0
    BY <2>1, <2>2 DEF Due, Least, Positive, OverdraftFar
  <2>4. L!Lower(L!AtLeastZero(n - mark[m]), L!AtLeastZero(L!Balance + Overdraft)) = 0
    BY <2>1, <2>2, <2>3 DEF L!Lower, L!AtLeastZero, OverdraftFar
  <2>5. bal = Minus(bal, Parts(bal, 0))
    <3>1. Parts(bal, 0) = [k \in Buckets |-> 0]
      BY DEF Parts, Balances, Buckets, Least, Positive
    <3>2. QED
      BY <3>1 DEF Minus, Balances, Buckets
  <2>6. L!DebitBuckets(0)
    BY <2>1, <2>5, SameDebit
  <2>7. L!ChargeRelayBytes(m, n)
    BY <2>1, <2>4, <2>6 DEF L!ChargeRelayBytes
  <2>8. QED
    BY <2>1, <2>7 DEF L!LedgerNext
<1>3. ASSUME NEW m, NEW n PROVE ~ReportFree("voice", m, n)
  BY DEF ReportFree
<1>4. QED
  BY <1>1, <1>2, <1>3 DEF Background

\* The transactions of any number of workers act on the account as if each
\* were one step of the ledger that SQLite keeps: every reservation,
\* settlement, release, relay charge and payment finds the account as the one
\* before has left it, in each behaviour in which no relay comes near the
\* overdraft limit.  (Voice, renewals and clearing use balances that they read
\* outside the lock; the ledger does not have them.)
THEOREM AccountActsLikeLedger ==
    ASSUME Ops \subseteq {"reserve", "settle", "relay", "post"}
    PROVE  Spec /\ []OverdraftFar => ActsLikeLedger
<1>1. Init => RefInv /\ L!LedgerInit
  BY RefInit
<1>2. RefInv /\ OverdraftFar /\ [Next]_vars => RefInv'
  BY RefNext
<1>3. RefInv /\ OverdraftFar /\ [Next]_vars => [L!LedgerNext]_(L!ledgerVars)
  <2> SUFFICES ASSUME RefInv, OverdraftFar, [Next]_vars
               PROVE  L!LedgerNext \/ UNCHANGED L!ledgerVars
    OBVIOUS
  <2>1. ASSUME NEW w \in Workers, Begin(w) \/ Rollback(w) PROVE UNCHANGED L!ledgerVars
    BY <2>1 DEF Begin, Rollback, Reserve, Settle, Report, Post, Renew, Clear, account,
                L!ledgerVars
  <2>2. CASE UNCHANGED vars
    BY <2>2 DEF vars, account, L!ledgerVars
  <2>3. QED
    BY <2>1, <2>2, CommitIsOperation, BackgroundIsOperation DEF Next
<1>4. QED
  BY <1>1, <1>2, <1>3, PTL DEF Spec, ActsLikeLedger, L!LedgerSpec
-----------------------------------------------------------------------------
(* Sums over sets of rows                                                  *)

\* Sets of subsets stand for properties here: what holds of a finite set when
\* it holds of its smaller subsets holds of all of them.
LEMMA AllSubsets ==
    ASSUME NEW S, IsFiniteSet(S), NEW P,
           \A T \in SUBSET S : (\A U \in SUBSET T : U # T => U \in P) => T \in P
    PROVE  SUBSET S \subseteq P
<1> DEFINE Q == (SUBSET S) \ P
           R == StrictSubsetOrdering(S)
<1>1. SUFFICES ASSUME Q # {} PROVE FALSE
  OBVIOUS
<1>2. Q \subseteq FiniteSubsetsOf(S)
  BY FS_Subset DEF FiniteSubsetsOf
<1>3. IsWellFoundedOn(R, FiniteSubsetsOf(S))
  BY FS_StrictSubsetOrderingWellFounded
<1> HIDE DEF Q, R
<1>4. PICK T \in Q : \A U \in Q : <<U, T>> \notin R
  BY <1>1, <1>2, <1>3, WFMin
<1>7. T \in SUBSET S /\ T \notin P
  BY <1>4 DEF Q
<1>5. ASSUME NEW U \in SUBSET T, U # T PROVE U \in P
  <2>1. <<U, T>> \in R
    BY <1>5, <1>7 DEF R, StrictSubsetOrdering
  <2>2. QED
    BY <1>4, <1>7, <2>1 DEF Q
<1>6. QED
  BY <1>7, <1>5

\* Sums of f over the subsets of S, in whatever order.
Additive(h, f, S) ==
    /\ h \in [SUBSET S -> Int]
    /\ h[{}] = 0
    /\ \A s \in SUBSET S : \A x \in s : h[s] = f[x] + h[s \ {x}]

LEMMA SumsExist ==
    ASSUME NEW S, IsFiniteSet(S), NEW f, \A x \in S : f[x] \in Int
    PROVE  \E h : Additive(h, f, S)
<1> DEFINE P == {T \in SUBSET S : \E h : Additive(h, f, T)}
<1>1. ASSUME NEW T \in SUBSET S, \A U \in SUBSET T : U # T => U \in P
      PROVE  T \in P
  <2>1. CASE T = {}
    <3> DEFINE h == [s \in SUBSET T |-> 0]
    <3>1. Additive(h, f, T)
      BY <2>1 DEF Additive
    <3>2. QED
      BY <3>1
  <2>2. CASE T # {}
    <3>1. PICK a \in T : TRUE
      BY <2>2
    <3>2. PICK g : Additive(g, f, T \ {a})
      BY <1>1, <3>1
    <3> DEFINE h == [s \in SUBSET T |-> IF a \in s THEN f[a] + g[s \ {a}] ELSE g[s]]
    <3>3. /\ g \in [SUBSET (T \ {a}) -> Int] /\ g[{}] = 0
          /\ \A s \in SUBSET (T \ {a}) : \A x \in s : g[s] = f[x] + g[s \ {x}]
      BY <3>2 DEF Additive
    <3>4. \A s \in SUBSET T : s \ {a} \in SUBSET (T \ {a}) /\ (a \notin s => s \in SUBSET (T \ {a}))
      OBVIOUS
    <3>5. h \in [SUBSET T -> Int] /\ h[{}] = 0
      BY <3>1, <3>3, <3>4
    <3>6. ASSUME NEW s \in SUBSET T, NEW x \in s PROVE h[s] = f[x] + h[s \ {x}]
      <4>1. s \ {x} \in SUBSET T /\ f[x] \in Int /\ f[a] \in Int
        BY <3>1
      <4>2. CASE x = a
        BY <3>4, <4>1, <4>2
      <4>3. CASE x # a /\ a \in s
        <5>1. g[s \ {a}] = f[x] + g[(s \ {a}) \ {x}]
          BY <3>3, <3>4, <4>3
        <5>2. (s \ {a}) \ {x} = (s \ {x}) \ {a} /\ a \in s \ {x}
          BY <4>3
        <5>3. h[s] = f[a] + g[s \ {a}] /\ h[s \ {x}] = f[a] + g[(s \ {x}) \ {a}]
          BY <4>1, <4>3, <5>2
        <5>4. g[(s \ {x}) \ {a}] \in Int
          BY <3>3, <3>4, <4>1
        <5> HIDE DEF h
        <5>5. h[s] = f[a] + (f[x] + g[(s \ {x}) \ {a}])
          BY <5>1, <5>2, <5>3
        <5>6. QED
          BY <4>1, <5>3, <5>4, <5>5
      <4>4. CASE a \notin s
        BY <3>3, <3>4, <4>1, <4>4
      <4>5. QED
        BY <4>2, <4>3, <4>4
    <3> HIDE DEF h
    <3>7. Additive(h, f, T)
      BY <3>5, <3>6 DEF Additive
    <3>8. QED
      BY <3>7
  <2>3. QED
    BY <2>1, <2>2
<1> HIDE DEF P
<1>2. S \in P
  BY <1>1, AllSubsets
<1>3. QED
  BY <1>2 DEF P

\* Sums of functions that agree on a set agree on it.
LEMMA SameSums ==
    ASSUME NEW S, IsFiniteSet(S), NEW T \in SUBSET S, NEW f, NEW e, NEW h, NEW k,
           Additive(h, f, S), Additive(k, e, S), \A x \in T : e[x] = f[x]
    PROVE  k[T] = h[T]
<1> DEFINE P == {U \in SUBSET T : k[U] = h[U]}
<1>1. ASSUME NEW U \in SUBSET T, \A V \in SUBSET U : V # U => V \in P
      PROVE  U \in P
  <2>1. CASE U = {}
    BY <2>1 DEF Additive
  <2>2. CASE U # {}
    <3>1. PICK a \in U : TRUE
      BY <2>2
    <3>2. h[U] = f[a] + h[U \ {a}] /\ k[U] = e[a] + k[U \ {a}]
      BY <3>1 DEF Additive
    <3>3. k[U \ {a}] = h[U \ {a}] /\ e[a] = f[a]
      BY <1>1, <3>1
    <3>4. QED
      BY <3>2, <3>3
  <2>3. QED
    BY <2>1, <2>2
<1>2. IsFiniteSet(T)
  BY FS_Subset
<1> HIDE DEF P
<1>3. T \in P
  BY <1>1, <1>2, AllSubsets
<1>4. QED
  BY <1>3 DEF P

\* One term that changes changes the sum by as much.
LEMMA SumChanges ==
    ASSUME NEW S, IsFiniteSet(S), NEW f, NEW e, NEW h, NEW k,
           Additive(h, f, S), Additive(k, e, S), NEW a \in S, f[a] \in Int, e[a] \in Int,
           \A x \in S \ {a} : e[x] = f[x]
    PROVE  k[S] = h[S] + e[a] - f[a]
<1>1. h[S] = f[a] + h[S \ {a}] /\ k[S] = e[a] + k[S \ {a}]
  BY DEF Additive
<1>2. k[S \ {a}] = h[S \ {a}]
  BY SameSums
<1>3. h[S \ {a}] \in Int
  BY DEF Additive
<1>4. QED
  BY <1>1, <1>2, <1>3

\* A fold over S, which takes the terms in the order of CHOOSE, is a sum.
Chosen(s) == CHOOSE x \in s : TRUE

Folded(g, f, S) ==
    \A s \in SUBSET S :
        g[s] = IF s = {} THEN 0 ELSE f[Chosen(s)] + g[s \ {Chosen(s)}]

LEMMA FoldIsSum ==
    ASSUME NEW S, IsFiniteSet(S), NEW f, NEW h, Additive(h, f, S), NEW g, Folded(g, f, S)
    PROVE  g[S] = h[S]
<1> DEFINE P == {T \in SUBSET S : g[T] = h[T]}
<1>1. ASSUME NEW T \in SUBSET S, \A U \in SUBSET T : U # T => U \in P
      PROVE  T \in P
  <2>1. CASE T = {}
    BY <2>1 DEF Additive, Folded
  <2>2. CASE T # {}
    <3>1. PICK a : a = Chosen(T)
      OBVIOUS
    <3>2. a \in T
      BY <2>2, <3>1 DEF Chosen
    <3>3. g[T] = f[a] + g[T \ {a}]
      BY <2>2, <3>1 DEF Folded
    <3>4. h[T] = f[a] + h[T \ {a}]
      BY <3>2 DEF Additive
    <3>5. g[T \ {a}] = h[T \ {a}]
      BY <1>1, <3>2
    <3>6. QED
      BY <3>3, <3>4, <3>5
  <2>3. QED
    BY <2>1, <2>2
<1> HIDE DEF P
<1>2. S \in P
  BY <1>1, AllSubsets
<1>3. QED
  BY <1>2 DEF P

SettledSum(hd) == MapThenSumSet(LAMBDA r : hd[r].settled, Requests)
ChargedSum(c) == MapThenSumSet(LAMBDA m : c[m], Meters)

LEMMA OutflowIs ==
    /\ Outflow = SettledSum(hold) + ChargedSum(charged)
    /\ Outflow' = SettledSum(hold') + ChargedSum(charged')
<1>1. Outflow = SettledSum(hold) + ChargedSum(charged)
  BY DEF Outflow, SettledSum, ChargedSum, MapThenSumSet, MapThenFoldSet
<1>2. Outflow' = SettledSum(hold') + ChargedSum(charged')
  BY DEF Outflow, SettledSum, ChargedSum, MapThenSumSet, MapThenFoldSet
<1>3. QED
  BY <1>1, <1>2

LEMMA ChargedSumIs ==
    ASSUME NEW c \in [Meters -> Nat]
    PROVE  \E h : Additive(h, c, Meters) /\ ChargedSum(c) = h[Meters]
<1> DEFINE Fold(g) == g = [s \in SUBSET Meters |->
              IF s = {} THEN 0 ELSE c[Chosen(s)] + g[s \ {Chosen(s)}]]
<1>1. ChargedSum(c) = (CHOOSE g : Fold(g))[Meters]
  BY DEF ChargedSum, MapThenSumSet, MapThenFoldSet, Chosen
<1>2. PICK h : Additive(h, c, Meters)
  BY CreditsAssumption, SumsExist
<1>3. Fold(h)
  <2>1. \A s \in SUBSET Meters : s # {} => Chosen(s) \in s
    BY DEF Chosen
  <2>2. \A s \in SUBSET Meters : s # {} => h[s] = c[Chosen(s)] + h[s \ {Chosen(s)}]
    BY <1>2, <2>1 DEF Additive
  <2>3. h = [s \in SUBSET Meters |-> h[s]] /\ h[{}] = 0
    BY <1>2 DEF Additive
  <2>4. QED
    BY <2>2, <2>3
<1>4. PICK g : Fold(g) /\ g = CHOOSE k : Fold(k)
  <2> HIDE DEF Fold
  <2>1. QED
    BY <1>3
<1>5. Folded(g, c, Meters)
  BY <1>4 DEF Folded
<1> HIDE DEF Fold
<1>6. g[Meters] = h[Meters]
  BY <1>2, <1>5, CreditsAssumption, FoldIsSum
<1>7. QED
  BY <1>1, <1>2, <1>4, <1>6

LEMMA SettledSumIs ==
    ASSUME NEW hd \in [Requests -> Holds]
    PROVE  \E h : /\ Additive(h, [r \in Requests |-> hd[r].settled], Requests)
                 /\ SettledSum(hd) = h[Requests]
<1> DEFINE f == [r \in Requests |-> hd[r].settled]
           Fold(g) == g = [s \in SUBSET Requests |->
              IF s = {} THEN 0 ELSE hd[Chosen(s)].settled + g[s \ {Chosen(s)}]]
<1>1. SettledSum(hd) = (CHOOSE g : Fold(g))[Requests]
  BY DEF SettledSum, MapThenSumSet, MapThenFoldSet, Chosen
<1>2. PICK h : Additive(h, f, Requests)
  <2>1. \A x \in Requests : f[x] \in Int
    BY DEF Holds
  <2> HIDE DEF f
  <2>2. QED
    BY <2>1, CreditsAssumption, SumsExist
<1>3. \A s \in SUBSET Requests : s # {} => Chosen(s) \in s /\ f[Chosen(s)] = hd[Chosen(s)].settled
  BY DEF Chosen
<1>4. Fold(h)
  <2>1. \A s \in SUBSET Requests : s # {} => h[s] = hd[Chosen(s)].settled + h[s \ {Chosen(s)}]
    BY <1>2, <1>3 DEF Additive
  <2>2. h = [s \in SUBSET Requests |-> h[s]] /\ h[{}] = 0
    BY <1>2 DEF Additive
  <2>3. QED
    BY <2>1, <2>2
<1>5. PICK g : Fold(g) /\ g = CHOOSE k : Fold(k)
  <2> HIDE DEF Fold
  <2>1. QED
    BY <1>4
<1>6. Folded(g, f, Requests)
  <2>1. g = [s \in SUBSET Requests |->
              IF s = {} THEN 0 ELSE hd[Chosen(s)].settled + g[s \ {Chosen(s)}]]
    BY <1>5
  <2> HIDE DEF f
  <2>2. QED
    BY <1>3, <2>1 DEF Folded
<1> HIDE DEF Fold, f
<1>7. g[Requests] = h[Requests]
  BY <1>2, <1>6, CreditsAssumption, FoldIsSum
<1>8. QED
  BY <1>1, <1>2, <1>5, <1>7 DEF f
-----------------------------------------------------------------------------
(* The books balance                                                       *)

LEMMA ChargedGrows ==
    ASSUME NEW f \in [Meters -> Nat], NEW m \in Meters, NEW c \in Nat
    PROVE  /\ ChargedSum(f) \in Int
           /\ ChargedSum([f EXCEPT ![m] = @ + c]) = ChargedSum(f) + c
<1> DEFINE e == [f EXCEPT ![m] = @ + c]
<1>1. /\ e \in [Meters -> Nat] /\ e[m] = f[m] + c /\ f[m] \in Int /\ e[m] \in Int
      /\ \A x \in Meters \ {m} : e[x] = f[x]
  OBVIOUS
<1> HIDE DEF e
<1>2. PICK h : Additive(h, f, Meters) /\ ChargedSum(f) = h[Meters]
  BY ChargedSumIs
<1>3. PICK k : Additive(k, e, Meters) /\ ChargedSum(e) = k[Meters]
  BY <1>1, ChargedSumIs
<1>4. k[Meters] = h[Meters] + e[m] - f[m]
  BY <1>1, <1>2, <1>3, CreditsAssumption, SumChanges
<1>5. h[Meters] \in Int
  BY <1>2 DEF Additive
<1>6. QED
  BY <1>1, <1>2, <1>3, <1>4, <1>5 DEF e

LEMMA ChargedType == ASSUME NEW f \in [Meters -> Nat] PROVE ChargedSum(f) \in Int
  BY ChargedSumIs DEF Additive

LEMMA SettledType == ASSUME NEW hd \in [Requests -> Holds] PROVE SettledSum(hd) \in Int
<1>1. PICK h : /\ Additive(h, [r \in Requests |-> hd[r].settled], Requests)
               /\ SettledSum(hd) = h[Requests]
  BY SettledSumIs
<1>2. h \in [SUBSET Requests -> Int]
  BY <1>1 DEF Additive
<1>3. QED
  BY <1>1, <1>2

LEMMA SettledGrows ==
    ASSUME NEW hd \in [Requests -> Holds], NEW e \in [Requests -> Holds], NEW r \in Requests,
           \A x \in Requests \ {r} : e[x].settled = hd[x].settled
    PROVE  SettledSum(e) = SettledSum(hd) + e[r].settled - hd[r].settled
<1> DEFINE f == [x \in Requests |-> hd[x].settled]
           g == [x \in Requests |-> e[x].settled]
<1>1. /\ f[r] = hd[r].settled /\ g[r] = e[r].settled /\ f[r] \in Int /\ g[r] \in Int
      /\ \A x \in Requests \ {r} : g[x] = f[x]
  BY DEF Holds
<1>2. PICK h : Additive(h, f, Requests) /\ SettledSum(hd) = h[Requests]
  BY SettledSumIs
<1>3. PICK k : Additive(k, g, Requests) /\ SettledSum(e) = k[Requests]
  BY SettledSumIs
<1> HIDE DEF f, g
<1>4. k[Requests] = h[Requests] + g[r] - f[r]
  BY <1>1, <1>2, <1>3, CreditsAssumption, SumChanges
<1>5. QED
  BY <1>1, <1>2, <1>3, <1>4

LEMMA SettledSame ==
    ASSUME NEW hd \in [Requests -> Holds], NEW e \in [Requests -> Holds],
           \A x \in Requests : e[x].settled = hd[x].settled
    PROVE  SettledSum(e) = SettledSum(hd)
<1> DEFINE f == [x \in Requests |-> hd[x].settled]
           g == [x \in Requests |-> e[x].settled]
<1>1. \A x \in Requests : g[x] = f[x]
  OBVIOUS
<1>2. PICK h : Additive(h, f, Requests) /\ SettledSum(hd) = h[Requests]
  BY SettledSumIs
<1>3. PICK k : Additive(k, g, Requests) /\ SettledSum(e) = k[Requests]
  BY SettledSumIs
<1> HIDE DEF f, g
<1>4. k[Requests] = h[Requests]
  BY <1>1, <1>2, <1>3, CreditsAssumption, SameSums
<1>5. QED
  BY <1>2, <1>3, <1>4

\* A debit takes n from the user, whatever the balance its parts come from.
LEMMA DebitTotal ==
    ASSUME NEW b \in Balances, NEW old \in Balances, NEW n \in Nat
    PROVE  Total(Minus(b, Parts(old, n))) = Total(b) - n
<1> DEFINE c == Least(Positive(old["carried"]), n)
           d == Least(Positive(old["current"]), n - c)
<1>1. c \in Int /\ d \in Int
  BY DEF Least, Positive, Balances, Buckets
<1>2. /\ Parts(old, n)["carried"] = c /\ Parts(old, n)["current"] = d
      /\ Parts(old, n)["purchased"] = n - c - d
  BY DEF Parts, Buckets
<1> HIDE DEF c, d
<1>3. /\ b["carried"] \in Int /\ b["current"] \in Int /\ b["purchased"] \in Int
  BY DEF Balances, Buckets
<1>4. /\ Minus(b, Parts(old, n))["carried"] = b["carried"] - c
      /\ Minus(b, Parts(old, n))["current"] = b["current"] - d
      /\ Minus(b, Parts(old, n))["purchased"] = b["purchased"] - (n - c - d)
  BY <1>2 DEF Minus, Buckets
<1>5. QED
  BY <1>1, <1>3, <1>4 DEF Total

\* What a step takes from the user it adds to the charges or takes from the
\* ledger's sum.
LEMMA KeepsBalance ==
    ASSUME CreditInv, CreditInv', Balanced, NEW i \in Int, NEW j \in Int, NEW k \in Int,
           Total(bal') = Total(bal) + i - j - k,
           posted' = posted + i,
           SettledSum(hold') = SettledSum(hold) + j,
           ChargedSum(charged') = ChargedSum(charged) + k
    PROVE  Balanced'
<1>1. /\ Total(bal) \in Int /\ posted \in Int
      /\ SettledSum(hold) \in Int /\ ChargedSum(charged) \in Int
      /\ StartPurchased \in Int /\ StartCarried \in Int /\ StartCurrent \in Int
  BY CreditsAssumption, TotalType, SettledType, ChargedType DEF CreditInv, TypeOK
<1>2. Total(bal) = StartPurchased + StartCarried + StartCurrent + posted
                     - (SettledSum(hold) + ChargedSum(charged))
  BY OutflowIs DEF Balanced
<1>3. Total(bal') = StartPurchased + StartCarried + StartCurrent + posted'
                     - (SettledSum(hold') + ChargedSum(charged'))
  BY <1>1, <1>2
<1>4. QED
  BY <1>3, OutflowIs DEF Balanced, Total

LEMMA CardinalityGrows ==
    ASSUME NEW l, IsFiniteSet(l), NEW k, NEW A
    PROVE  /\ Cardinality(l \cap A) \in Nat
           /\ Cardinality((l \cup {k}) \cap A) =
                 Cardinality(l \cap A) + (IF k \in A /\ k \notin l THEN 1 ELSE 0)
<1>1. IsFiniteSet(l \cap A) /\ Cardinality(l \cap A) \in Nat
  BY FS_Subset, FS_CardinalityType
<1>2. CASE k \in A
  <2>1. (l \cup {k}) \cap A = (l \cap A) \cup {k}
    BY <1>2
  <2>2. Cardinality((l \cap A) \cup {k}) =
           IF k \in l \cap A THEN Cardinality(l \cap A) ELSE Cardinality(l \cap A) + 1
    BY <1>1, FS_AddElement
  <2>3. Cardinality((l \cup {k}) \cap A) =
           IF k \in l THEN Cardinality(l \cap A) ELSE Cardinality(l \cap A) + 1
    BY <1>2, <2>1, <2>2
  <2>4. QED
    BY <1>1, <1>2, <2>3
<1>3. CASE k \notin A
  <2>1. (l \cup {k}) \cap A = l \cap A
    BY <1>3
  <2>2. Cardinality((l \cup {k}) \cap A) = Cardinality(l \cap A)
    BY <2>1
  <2>3. QED
    BY <1>1, <1>3, <2>2
<1>4. QED
  BY <1>2, <1>3

\* Only a settlement puts a number into a hold, and only an open hold is settled.
SettledLater ==
    \A r \in Requests : hold[r].status \in {"none", "held", "expired"} => hold[r].settled = 0

\* A period that is in the ledger has its marker.
KeysKnown == IsFiniteSet(ledger) /\ ledger \cap Periods \subseteq carried

\* A renewal has the row of the subscription, and its period is a new one.
RenewAlone ==
    /\ \A w \in Workers : op[w] = "renew" => pc[w] = "apply" /\ target[w] \notin carried
    /\ \A v, w \in Workers : op[v] = "renew" /\ op[w] = "renew" => v = w

BooksInv == CreditInv /\ SettledLater /\ KeysKnown /\ RenewAlone /\ Books

LEMMA BooksInit == Init => BooksInv
<1>1. SUFFICES ASSUME Init PROVE BooksInv
  OBVIOUS
<1>2. CreditInv
  BY <1>1, InitInv
<1>3. SettledLater /\ RenewAlone
  BY <1>1 DEF Init, SettledLater, RenewAlone
<1>4. KeysKnown
  BY <1>1, FS_EmptySet DEF Init, KeysKnown
<1>5. Balanced
  <2>1. SettledSum(hold) = 0
    <3> DEFINE f == [r \in Requests |-> hold[r].settled]
               z == [s \in SUBSET Requests |-> 0]
    <3>1. PICK h : Additive(h, f, Requests) /\ SettledSum(hold) = h[Requests]
      BY <1>2, SettledSumIs DEF CreditInv, TypeOK
    <3>2. \A x \in Requests : f[x] = 0
      BY <1>1 DEF Init
    <3>3. Additive(z, [x \in Requests |-> 0], Requests) /\ z[Requests] = 0
      BY DEF Additive
    <3> HIDE DEF f, z
    <3>4. h[Requests] = z[Requests]
      BY <3>1, <3>2, <3>3, CreditsAssumption, SameSums
    <3>5. QED
      BY <3>1, <3>3, <3>4
  <2>2. ChargedSum(charged) = 0
    <3> DEFINE z == [s \in SUBSET Meters |-> 0]
    <3>1. PICK h : Additive(h, charged, Meters) /\ ChargedSum(charged) = h[Meters]
      BY <1>2, ChargedSumIs DEF CreditInv, TypeOK
    <3>2. \A x \in Meters : charged[x] = 0
      BY <1>1 DEF Init
    <3>3. Additive(z, charged, Meters) /\ z[Meters] = 0
      BY <3>2 DEF Additive
    <3> HIDE DEF z
    <3>4. h[Meters] = z[Meters]
      BY <3>1, <3>3, CreditsAssumption, SameSums
    <3>5. QED
      BY <3>1, <3>3, <3>4
  <2>3. Total(bal) = StartPurchased + StartCarried + StartCurrent /\ posted = 0
    <3>1. /\ bal["purchased"] = StartPurchased /\ bal["carried"] = StartCarried
          /\ bal["current"] = StartCurrent
      BY <1>1 DEF Init, Buckets
    <3>2. QED
      BY <1>1, <3>1 DEF Init, Total
  <2>4. QED
    BY <2>1, <2>2, <2>3, OutflowIs, CreditsAssumption DEF Balanced
<1>6. PostedOnce
  <2>1. \A A : ledger \cap A = {}
    BY <1>1 DEF Init
  <2>2. \A A : Cardinality(ledger \cap A) = 0
    BY <2>1, FS_EmptySet
  <2>3. QED
    BY <1>1, <2>2, CreditsAssumption DEF Init, PostedOnce
<1>7. QED
  BY <1>2, <1>3, <1>4, <1>5, <1>6 DEF BooksInv, Books

\* A step that neither charges nor posts.
LEMMA QuietKeeps ==
    ASSUME BooksInv, CreditInv', UNCHANGED <<bal, charged, ledger, posted, carried>>,
           \A x \in Requests : hold'[x].settled = hold[x].settled
    PROVE  Books' /\ KeysKnown'
<1>1. SettledSum(hold') = SettledSum(hold)
  BY SettledSame DEF BooksInv, CreditInv, TypeOK
<1>2. Balanced'
  BY <1>1, OutflowIs DEF BooksInv, Books, Balanced, Total
<1>3. PostedOnce' /\ KeysKnown'
  BY DEF BooksInv, Books, PostedOnce, KeysKnown
<1>4. QED
  BY <1>2, <1>3 DEF Books

\* The end of a renewal leaves none; the end of another call leaves it alone.
LEMMA EndRenew ==
    ASSUME BooksInv, NEW w \in Workers, End(w),
           carried' = carried \/ op[w] = "renew"
    PROVE  RenewAlone'
<1>1. /\ op \in [Workers -> AllOps] /\ RenewAlone
      /\ op' = [op EXCEPT ![w] = "reserve"]
      /\ \A v \in Workers \ {w} : pc'[v] = pc[v] /\ op'[v] = op[v] /\ target'[v] = target[v]
  BY EndWorkers DEF End, BooksInv, CreditInv, TypeOK
<1>2. op'[w] = "reserve"
  BY <1>1
<1>3. \A v \in Workers : op'[v] = "renew" => v # w /\ op[v] = "renew" /\ carried' = carried
  BY <1>1, <1>2 DEF RenewAlone
<1>4. QED
  BY <1>1, <1>3 DEF RenewAlone

\* A settlement takes from the user what it puts into the hold.
LEMMA SettleBooks ==
    ASSUME BooksInv, CreditInv', NEW w \in Workers, CommitSettle(w)
    PROVE  SettledLater' /\ KeysKnown' /\ RenewAlone' /\ Books'
<1> DEFINE r == target[w]
           n == amount[w]
<1>1. /\ CreditInv /\ hold \in [Requests -> Holds] /\ hold' \in [Requests -> Holds]
      /\ bal \in Balances /\ r \in Requests /\ n \in 0..MaxHold /\ n \in Nat
      /\ End(w) /\ UNCHANGED <<over, mark, charged, ledger, posted, carried>>
      /\ SettledLater /\ Balanced
  BY DEF BooksInv, Books, CreditInv, TypeOK, CallsOK, Busy, CommitSettle
<1>2. RenewAlone'
  BY <1>1, EndRenew
<1>3. CASE UNCHANGED <<bal, hold>>
  <2>1. Books' /\ KeysKnown'
    BY <1>1, <1>3, QuietKeeps
  <2>2. QED
    BY <1>1, <1>2, <1>3, <2>1 DEF SettledLater
<1>4. CASE /\ Open(r) /\ bal' = Minus(bal, Parts(bal, n))
           /\ hold' = [hold EXCEPT ![r].status = "settled", ![r].settled = n]
  <2>1. /\ hold'[r].status = "settled" /\ hold'[r].settled = n /\ hold[r].settled = 0
        /\ \A x \in Requests \ {r} : hold'[x] = hold[x]
    BY <1>1, <1>4 DEF Holds, Open, SettledLater
  <2>2. SettledLater'
    BY <1>1, <2>1 DEF SettledLater
  <2>3. SettledSum(hold') = SettledSum(hold) + n
    <3>1. SettledSum(hold') = SettledSum(hold) + hold'[r].settled - hold[r].settled
      BY <1>1, <2>1, SettledGrows
    <3>2. SettledSum(hold) \in Int
      BY <1>1, SettledType
    <3>3. QED
      BY <1>1, <2>1, <3>1, <3>2
  <2>4. Total(bal') = Total(bal) - n
    BY <1>1, <1>4, DebitTotal
  <2>5. Balanced'
    <3>1. Total(bal) \in Int /\ posted \in Int /\ ChargedSum(charged) \in Int
      BY <1>1, TotalType, ChargedType DEF CreditInv, TypeOK
    <3>2. /\ Total(bal') = Total(bal) + 0 - n - 0 /\ posted' = posted + 0
          /\ ChargedSum(charged') = ChargedSum(charged) + 0
      BY <1>1, <2>4, <3>1
    <3>3. QED
      BY <1>1, <2>3, <3>2, KeepsBalance
  <2>6. PostedOnce' /\ KeysKnown'
    BY <1>1 DEF BooksInv, Books, PostedOnce, KeysKnown
  <2>7. QED
    BY <1>2, <2>2, <2>5, <2>6 DEF Books
<1>5. QED
  BY <1>3, <1>4 DEF CommitSettle

\* A charge takes from the user what it adds to the row of the meter, also when
\* its parts come from a balance that has changed since.
LEMMA ChargeBooks ==
    ASSUME BooksInv, CreditInv', NEW w \in Workers, Charges(w), End(w),
           NEW old \in Balances, bal' = Minus(bal, Parts(old, due[w])),
           Advance(target[w], amount[w], due[w]),
           UNCHANGED <<hold, over, ledger, posted, carried>>
    PROVE  SettledLater' /\ KeysKnown' /\ RenewAlone' /\ Books'
<1> DEFINE m == target[w]
           n == due[w]
<1>1. /\ CreditInv /\ hold \in [Requests -> Holds] /\ charged \in [Meters -> Nat]
      /\ bal \in Balances /\ m \in Meters /\ n \in Nat /\ posted \in Int /\ Balanced
      /\ charged' = [charged EXCEPT ![m] = @ + n]
  BY DEF BooksInv, Books, CreditInv, TypeOK, CallsOK, Advance
<1>2. RenewAlone'
  BY EndRenew
<1>3. SettledLater' /\ PostedOnce' /\ KeysKnown'
  BY DEF BooksInv, Books, SettledLater, PostedOnce, KeysKnown
<1>4. ChargedSum(charged') = ChargedSum(charged) + n
  BY <1>1, ChargedGrows
<1>5. Total(bal') = Total(bal) - n
  BY <1>1, DebitTotal
<1>6. Balanced'
  <2>1. Total(bal) \in Int /\ SettledSum(hold) \in Int
    BY <1>1, TotalType, SettledType
  <2>2. PICK i \in Int : i = 0
    OBVIOUS
  <2>3. /\ Total(bal') = Total(bal) + i - i - n /\ posted' = posted + i
        /\ SettledSum(hold') = SettledSum(hold) + i /\ n \in Int
    BY <1>1, <1>5, <2>1, <2>2
  <2> HIDE DEF n
  <2>4. QED
    BY <1>1, <1>4, <2>3, KeepsBalance
<1>7. QED
  BY <1>2, <1>3, <1>6 DEF Books

\* What is posted to the ledger's sum is what the user gets.
LEMMA LedgerBooks ==
    ASSUME BooksInv, CreditInv', NEW i \in Int, posted' = posted + i,
           Total(bal') = Total(bal) + i, UNCHANGED <<hold, charged>>
    PROVE  SettledLater' /\ Balanced'
<1>1. /\ CreditInv /\ Balanced /\ Total(bal) \in Int /\ SettledSum(hold) \in Int
      /\ ChargedSum(charged) \in Int
  BY TotalType, SettledType, ChargedType DEF BooksInv, Books, CreditInv, TypeOK
<1>2. /\ Total(bal') = Total(bal) + i - 0 - 0
      /\ SettledSum(hold') = SettledSum(hold) + 0
      /\ ChargedSum(charged') = ChargedSum(charged) + 0
  BY <1>1
<1>3. Balanced'
  BY <1>1, <1>2, KeepsBalance
<1>4. QED
  BY <1>3 DEF BooksInv, SettledLater

LEMMA PostBooks ==
    ASSUME Periods \cap Payments = {}, BooksInv, CreditInv', NEW w \in Workers, CommitPost(w)
    PROVE  SettledLater' /\ KeysKnown' /\ RenewAlone' /\ Books'
<1> DEFINE p == target[w]
           delta == IF p \in Refunds THEN -Payment ELSE Payment
<1>1. /\ CreditInv /\ bal \in Balances /\ posted \in Int /\ p \in Payments
      /\ End(w) /\ UNCHANGED <<hold, over, mark, charged, carried>>
      /\ IsFiniteSet(ledger) /\ ledger \cap Periods \subseteq carried /\ PostedOnce
      /\ Payment \in Nat /\ Bonus \in Nat /\ delta \in Int
  BY CreditsAssumption
     DEF BooksInv, Books, KeysKnown, CreditInv, TypeOK, CallsOK, Busy, CommitPost
<1>2. RenewAlone'
  BY <1>1, EndRenew
<1>3. CASE UNCHANGED <<bal, ledger, posted>>
  <2>1. Books' /\ KeysKnown'
    BY <1>1, <1>3, QuietKeeps
  <2>2. QED
    BY <1>1, <1>2, <2>1 DEF BooksInv, SettledLater
<1>4. CASE /\ p \notin ledger /\ bal' = [bal EXCEPT !["purchased"] = @ + delta]
           /\ ledger' = ledger \cup {p} /\ posted' = posted + delta
  <2>1. Total(bal') = Total(bal) + delta
    BY <1>1, <1>4 DEF Total, Balances, Buckets
  <2> DEFINE x(A) == Cardinality(ledger \cap A)
             y(A) == Cardinality(ledger' \cap A)
  <2>2. ASSUME NEW A PROVE x(A) \in Nat /\ y(A) = x(A) + (IF p \in A THEN 1 ELSE 0)
    BY <1>1, <1>4, CardinalityGrows
  <2>3. posted + Payment * x(Refunds) <= Payment * x(Recharges) + Bonus * x(Periods)
    BY <1>1 DEF PostedOnce
  <2> HIDE DEF x, y, delta
  <2>4. p \in Refunds \/ p \in Recharges
    BY <1>1 DEF Payments
  <2>5. y(Periods) = x(Periods)
    BY <1>1, <2>2
  <2>6. \A i \in Nat : Payment * (i + 1) = Payment * i + Payment /\ Payment * i \in Nat
                       /\ Bonus * i \in Nat
    BY <1>1
  <2>7. PICK a \in Nat, b \in Nat, c \in Nat :
            a = Payment * x(Refunds) /\ b = Payment * x(Recharges) /\ c = Bonus * x(Periods)
    BY <2>2, <2>6
  <2>8. posted' + Payment * y(Refunds) <= Payment * y(Recharges) + Bonus * y(Periods)
    <3>1. CASE p \in Refunds
      <4>1. delta = -Payment /\ Payment * y(Refunds) = a + Payment
        BY <2>2, <2>6, <2>7, <3>1 DEF delta
      <4>2. Payment * y(Recharges) = b \/ Payment * y(Recharges) = b + Payment
        BY <2>2, <2>6, <2>7
      <4>3. Bonus * y(Periods) = c
        BY <2>5, <2>7
      <4>4. QED
        BY <1>1, <1>4, <2>3, <2>7, <4>1, <4>2, <4>3
    <3>2. CASE p \notin Refunds
      <4>1. delta = Payment /\ Payment * y(Refunds) = a
        BY <2>2, <2>7, <3>2 DEF delta
      <4>2. Payment * y(Recharges) = b + Payment
        BY <2>2, <2>4, <2>6, <2>7, <3>2
      <4>3. Bonus * y(Periods) = c
        BY <2>5, <2>7
      <4>4. QED
        BY <1>1, <1>4, <2>3, <2>7, <4>1, <4>2, <4>3
    <3>3. QED
      BY <3>1, <3>2
  <2>9. PostedOnce'
    BY <2>8 DEF PostedOnce, y
  <2>10. KeysKnown'
    BY <1>1, <1>4, FS_AddElement DEF KeysKnown
  <2>11. QED
    BY <1>1, <1>2, <1>4, <2>1, <2>9, <2>10, LedgerBooks DEF Books
<1>5. QED
  BY <1>3, <1>4 DEF CommitPost, NewKey

LEMMA RenewBooks ==
    ASSUME Periods \cap Payments = {}, BooksInv, CreditInv', NEW w \in Workers, CommitRenew(w)
    PROVE  SettledLater' /\ KeysKnown' /\ RenewAlone' /\ Books'
<1> DEFINE p == target[w]
           c == Positive(view[w]["carried"])
           d == Positive(view[w]["current"])
<1>1. /\ CreditInv /\ bal \in Balances /\ view[w] \in Balances /\ posted \in Int
      /\ p \in Periods /\ op[w] = "renew"
      /\ End(w) /\ UNCHANGED <<hold, over, mark, charged>>
      /\ IsFiniteSet(ledger) /\ ledger \cap Periods \subseteq carried /\ PostedOnce
      /\ Payment \in Nat /\ Bonus \in Nat
  BY CreditsAssumption
     DEF BooksInv, Books, KeysKnown, CreditInv, TypeOK, CallsOK, Busy, CommitRenew
<1>2. c \in Nat /\ d \in Nat
  BY <1>1 DEF Positive, Balances, Buckets
<1>3. /\ bal' = [bal EXCEPT !["carried"] = @ - c + d, !["current"] = @ - d + Bonus]
      /\ ledger' = ledger \cup {p} /\ posted' = posted - c + Bonus
      /\ carried' = carried \cup {p}
  BY DEF CommitRenew
<1> HIDE DEF c, d
<1>4. RenewAlone'
  BY <1>1, EndRenew
<1>5. p \notin ledger
  BY <1>1 DEF BooksInv, RenewAlone
<1> DEFINE i == Bonus - c
<1>6. i \in Int /\ posted' = posted + i /\ Total(bal') = Total(bal) + i
  BY <1>1, <1>2, <1>3 DEF Total, Balances, Buckets
<1>7. SettledLater' /\ Balanced'
  <2> HIDE DEF i
  <2>1. QED
    BY <1>1, <1>6, LedgerBooks
<1>8. PostedOnce'
  <2> DEFINE x(A) == Cardinality(ledger \cap A)
             y(A) == Cardinality(ledger' \cap A)
  <2>1. ASSUME NEW A PROVE x(A) \in Nat /\ y(A) = x(A) + (IF p \in A THEN 1 ELSE 0)
    BY <1>1, <1>3, <1>5, CardinalityGrows
  <2>2. posted + Payment * x(Refunds) <= Payment * x(Recharges) + Bonus * x(Periods)
    BY <1>1 DEF PostedOnce
  <2> HIDE DEF x, y
  <2>3. p \notin Refunds /\ p \notin Recharges
    BY <1>1 DEF Payments
  <2>4. y(Refunds) = x(Refunds) /\ y(Recharges) = x(Recharges) /\ y(Periods) = x(Periods) + 1
    BY <1>1, <2>1, <2>3
  <2>5. \A n \in Nat : /\ Bonus * (n + 1) = Bonus * n + Bonus
                       /\ Bonus * n \in Nat /\ Payment * n \in Nat
    BY <1>1
  <2>6. PICK a \in Nat, b \in Nat, e \in Nat :
            a = Payment * x(Refunds) /\ b = Payment * x(Recharges) /\ e = Bonus * x(Periods)
    BY <2>1, <2>5
  <2>7. Bonus * y(Periods) = e + Bonus
    BY <2>1, <2>4, <2>5, <2>6
  <2>8. posted' + Payment * y(Refunds) <= Payment * y(Recharges) + Bonus * y(Periods)
    BY <1>1, <1>2, <1>3, <2>2, <2>4, <2>6, <2>7
  <2>9. QED
    BY <2>8 DEF PostedOnce, y
<1>9. KeysKnown'
  BY <1>1, <1>3, FS_AddElement DEF KeysKnown
<1>10. QED
  BY <1>4, <1>7, <1>8, <1>9 DEF Books

LEMMA ClearBooks ==
    ASSUME BooksInv, CreditInv', NEW w \in Workers, CommitClear(w)
    PROVE  SettledLater' /\ KeysKnown' /\ RenewAlone' /\ Books'
<1> DEFINE c == Positive(view[w]["carried"])
           d == Positive(view[w]["current"])
<1>1. /\ CreditInv /\ bal \in Balances /\ view[w] \in Balances /\ posted \in Int
      /\ End(w) /\ UNCHANGED <<hold, over, mark, charged, ledger, carried>>
      /\ KeysKnown /\ PostedOnce /\ Payment \in Nat /\ Bonus \in Nat
  BY CreditsAssumption DEF BooksInv, Books, CreditInv, TypeOK, CommitClear
<1>2. c \in Nat /\ d \in Nat
  BY <1>1 DEF Positive, Balances, Buckets
<1>3. /\ bal' = [bal EXCEPT !["carried"] = @ - c, !["current"] = @ - d]
      /\ posted' = posted - c - d
  BY DEF CommitClear
<1> HIDE DEF c, d
<1>4. RenewAlone'
  BY <1>1, EndRenew
<1> DEFINE i == 0 - c - d
<1>5. i \in Int /\ posted' = posted + i /\ Total(bal') = Total(bal) + i
  BY <1>1, <1>2, <1>3 DEF Total, Balances, Buckets
<1>6. SettledLater' /\ Balanced'
  <2> HIDE DEF i
  <2>1. QED
    BY <1>1, <1>5, LedgerBooks
<1>7. PostedOnce'
  <2>1. \A A : Cardinality(ledger \cap A) \in Nat
    BY <1>1, CardinalityGrows DEF KeysKnown
  <2>2. \A n \in Nat : Bonus * n \in Nat /\ Payment * n \in Nat
    BY <1>1
  <2>3. PICK a \in Nat, b \in Nat, e \in Nat :
            /\ a = Payment * Cardinality(ledger \cap Refunds)
            /\ b = Payment * Cardinality(ledger \cap Recharges)
            /\ e = Bonus * Cardinality(ledger \cap Periods)
    BY <2>1, <2>2
  <2>4. posted + a <= b + e
    BY <1>1, <2>3 DEF PostedOnce
  <2>5. posted' + a <= b + e
    BY <1>1, <1>2, <1>3, <2>4
  <2>6. QED
    BY <1>1, <2>3, <2>5 DEF PostedOnce
<1>8. KeysKnown'
  BY <1>1 DEF KeysKnown
<1>9. QED
  BY <1>4, <1>6, <1>7, <1>8 DEF Books

LEMMA ProgressBooks ==
    ASSUME Periods \cap Payments = {}, BooksInv, CreditInv', NEW w \in Workers, Progress(w)
    PROVE  SettledLater' /\ KeysKnown' /\ RenewAlone' /\ Books'
<1>1. /\ CreditInv /\ view[w] \in Balances /\ bal \in Balances
      /\ hold \in [Requests -> Holds] /\ SettledLater /\ RenewAlone
  BY DEF BooksInv, CreditInv, TypeOK
<1>2. CASE LockUser(w) \/ ReadParts(w)
  <2>1. /\ UNCHANGED <<account, op, target>>
        /\ \A v \in Workers : v # w => pc'[v] = pc[v]
        /\ pc[w] # "apply"
    BY <1>1, <1>2 DEF LockUser, ReadParts, CreditInv, TypeOK
  <2>2. Books' /\ KeysKnown' /\ SettledLater'
    BY <1>1, <2>1, QuietKeeps DEF account, SettledLater
  <2>3. RenewAlone'
    BY <1>1, <2>1 DEF RenewAlone, account
  <2>4. QED
    BY <2>2, <2>3
<1>3. CASE CommitReserve(w)
  <2>1. /\ End(w) /\ UNCHANGED <<bal, over, mark, charged, ledger, posted, carried>>
        /\ target[w] \in Requests
        /\ \/ hold' = hold
           \/ /\ hold' = [hold EXCEPT ![target[w]].status = "held",
                                      ![target[w]].reserved = amount[w]]
              /\ hold[target[w]].status = "none"
    BY <1>1, <1>3 DEF CommitReserve, CreditInv, CallsOK, Busy
  <2>2. \A x \in Requests : /\ hold'[x].settled = hold[x].settled
                            /\ hold'[x] = hold[x] \/ hold[x].settled = 0
    BY <1>1, <2>1 DEF Holds, SettledLater
  <2>3. Books' /\ KeysKnown' /\ RenewAlone'
    BY <2>1, <2>2, QuietKeeps, EndRenew
  <2>4. SettledLater'
    BY <1>1, <2>2 DEF SettledLater
  <2>5. QED
    BY <2>3, <2>4
<1>4. CASE CommitSettle(w)
  BY <1>4, SettleBooks
<1>5. CASE CommitRelay(w)
  <2>1. /\ End(w) /\ Charges(w) /\ Advance(target[w], amount[w], due[w])
        /\ bal' = Minus(bal, Parts(bal, due[w]))
        /\ UNCHANGED <<hold, over, ledger, posted, carried>>
    BY <1>5 DEF CommitRelay, Charges, Busy
  <2>2. QED
    BY <1>1, <2>1, ChargeBooks
<1>6. CASE CommitVoice(w)
  <2>1. /\ End(w) /\ Charges(w) /\ Advance(target[w], amount[w], due[w])
        /\ bal' = Minus(bal, Parts(view[w], due[w]))
        /\ UNCHANGED <<hold, over, ledger, posted, carried>>
    BY <1>6 DEF CommitVoice, Charges, Busy, Spent
  <2>2. QED
    BY <1>1, <2>1, ChargeBooks
<1>7. CASE CommitPost(w)
  BY <1>7, PostBooks
<1>8. CASE CommitRenew(w)
  BY <1>8, RenewBooks
<1>9. CASE CommitClear(w)
  BY <1>9, ClearBooks
<1>10. QED
  BY <1>2, <1>3, <1>4, <1>5, <1>6, <1>7, <1>8, <1>9 DEF Progress

LEMMA BeginBooks ==
    ASSUME BooksInv, CreditInv', NEW w \in Workers, Begin(w)
    PROVE  SettledLater' /\ KeysKnown' /\ RenewAlone' /\ Books'
<1>1. /\ CreditInv /\ RenewAlone /\ op \in [Workers -> AllOps] /\ target \in [Workers -> Targets]
      /\ pc \in [Workers -> {"idle", "user", "commit", "parts", "apply"}]
  BY DEF BooksInv, CreditInv, TypeOK
<1>2. /\ UNCHANGED account
      /\ \A v \in Workers \ {w} : pc'[v] = pc[v] /\ op'[v] = op[v] /\ target'[v] = target[v]
      /\ op'[w] = "renew" => /\ pc'[w] = "apply" /\ target'[w] \notin carried
                             /\ \A v \in Workers : op[v] # "renew"
  <2>1. ASSUME NEW o, NEW t, NEW n, Call(w, o, t, n)
        PROVE  /\ op'[w] = o /\ target'[w] = t
               /\ \A v \in Workers \ {w} : op'[v] = op[v] /\ target'[v] = target[v]
    BY <1>1, <2>1 DEF Call
  <2>2. ASSUME NEW x, pc' = [pc EXCEPT ![w] = x]
        PROVE  pc'[w] = x /\ \A v \in Workers \ {w} : pc'[v] = pc[v]
    BY <1>1, <2>2
  <2>3. CASE \E r \in Requests, n \in 1..MaxHold : Reserve(w, r, n)
    BY <2>1, <2>2, <2>3 DEF Reserve
  <2>4. CASE \E r \in Requests, n \in 0..MaxHold : Settle(w, r, n)
    BY <2>1, <2>2, <2>4 DEF Settle
  <2>5. CASE \E o \in {"relay", "voice"}, m \in Meters, n \in 0..MaxUnits : Report(w, o, m, n)
    <3>1. PICK o \in {"relay", "voice"}, m \in Meters, n \in 0..MaxUnits : Report(w, o, m, n)
      BY <2>5
    <3>2. Call(w, o, m, n) /\ UNCHANGED account
      BY <3>1 DEF Report
    <3>3. pc' = [pc EXCEPT ![w] = IF o = "relay" THEN "user" ELSE "parts"]
      BY <3>1 DEF Report
    <3>4. QED
      BY <2>1, <2>2, <3>2, <3>3
  <2>6. CASE \E p \in Payments : Post(w, p)
    BY <2>1, <2>2, <2>6 DEF Post
  <2>7. CASE \E p \in Periods : Renew(w, p)
    BY <2>1, <2>2, <2>7, ZenonT(30) DEF Renew
  <2>8. CASE Clear(w)
    BY <2>1, <2>2, <2>8 DEF Clear
  <2>9. QED
    BY <2>3, <2>4, <2>5, <2>6, <2>7, <2>8 DEF Begin, Meters
<1>3. Books' /\ KeysKnown' /\ SettledLater'
  BY <1>2, QuietKeeps DEF account, BooksInv, SettledLater
<1>4. RenewAlone'
  BY <1>1, <1>2 DEF RenewAlone, account
<1>5. QED
  BY <1>3, <1>4

LEMMA BackgroundBooks ==
    ASSUME BooksInv, CreditInv', Background
    PROVE  SettledLater' /\ KeysKnown' /\ RenewAlone' /\ Books'
<1>1. /\ hold \in [Requests -> Holds] /\ charged \in [Meters -> Nat] /\ SettledLater /\ RenewAlone
  BY DEF BooksInv, CreditInv, TypeOK
<1>2. /\ UNCHANGED <<bal, ledger, posted, carried, workers>>
      /\ charged' = charged
      /\ \A x \in Requests : /\ hold'[x].settled = hold[x].settled
                             /\ hold'[x] = hold[x] \/ hold[x].settled = 0
  <2>1. ASSUME NEW r \in Requests, Release(r) \/ Expire(r) \/ Sweep(r)
        PROVE  /\ UNCHANGED <<bal, charged, ledger, posted, carried, workers>>
               /\ \A x \in Requests : /\ hold'[x].settled = hold[x].settled
                                      /\ hold'[x] = hold[x] \/ hold[x].settled = 0
    BY <1>1, <2>1 DEF Release, Expire, Sweep, Open, Lapsed, SettledLater, Holds
  <2>2. ASSUME NEW o, NEW m \in Meters, NEW n, ReportFree(o, m, n)
        PROVE  UNCHANGED <<bal, hold, charged, ledger, posted, carried, workers>>
    BY <1>1, <2>2 DEF ReportFree, Advance
  <2>3. QED
    BY <2>1, <2>2 DEF Background, Meters
<1>3. Books' /\ KeysKnown'
  BY <1>2, QuietKeeps
<1>4. SettledLater'
  BY <1>1, <1>2 DEF SettledLater
<1>5. RenewAlone'
  BY <1>1, <1>2 DEF RenewAlone, workers
<1>6. QED
  BY <1>3, <1>4, <1>5

LEMMA BooksNext ==
    ASSUME Periods \cap Payments = {}, BooksInv, [Next]_vars
    PROVE  BooksInv'
<1>1. CreditInv'
  BY NextInv DEF BooksInv
<1>2. ASSUME NEW w \in Workers, Rollback(w)
      PROVE  SettledLater' /\ KeysKnown' /\ RenewAlone' /\ Books'
  <2>1. End(w) /\ UNCHANGED account
    BY <1>2 DEF Rollback
  <2>2. QED
    BY <1>1, <2>1, QuietKeeps, EndRenew DEF account, BooksInv, SettledLater
<1>3. CASE UNCHANGED vars
  <2>1. UNCHANGED <<account, workers>>
    BY <1>3 DEF vars
  <2>2. QED
    BY <1>1, <2>1, QuietKeeps DEF account, workers, BooksInv, SettledLater, RenewAlone
<1>4. QED
  BY <1>1, <1>2, <1>3, ProgressBooks, BeginBooks, BackgroundBooks DEF Next, BooksInv

\* The books balance for any number of workers, holds, meters and payments: what
\* the user has is what was posted less what was charged, and no payment or
\* period counts twice, whatever interleaves and is rolled back.  The keys of
\* payments and of periods begin differently (`apple:', `refund:', `bonus_sub:').
THEOREM BooksBalance ==
    ASSUME Periods \cap Payments = {}
    PROVE  Spec => []Books
<1>1. Init => BooksInv
  BY BooksInit
<1>2. BooksInv /\ [Next]_vars => BooksInv'
  BY BooksNext
<1>3. BooksInv => Books
  BY DEF BooksInv
<1>4. QED
  BY <1>1, <1>2, <1>3, PTL DEF Spec
=============================================================================
