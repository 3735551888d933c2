---------------------------- MODULE BalanceProofs ---------------------------
(***************************************************************************)
(* What is owed on an enrolment and what is left from before the system:   *)
(* theorems about the money of an enrolment (Account) and about opening    *)
(* balances (OpeningBalance), for all values of their constants.  The two  *)
(* components share no name: each half of this module speaks of one        *)
(* specification.                                                          *)
(***************************************************************************)
EXTENDS Account, OpeningBalance, Sums, FiniteSetTheorems, SequenceTheorems, TLAPS

-----------------------------------------------------------------------------
(* The money of an enrolment, for every set of amounts, types, years and     *)
(* requests in flight, and any number of rows.                               *)

Formed(q) ==
    q = [op |-> q.op, on |-> q.on, amount |-> q.amount, less |-> q.less, shares |-> q.shares,
         spread |-> q.spread, overtaken |-> q.overtaken]

(***************************************************************************)
(* What a request is about is there, and what it brings can be written,    *)
(* however often it was overtaken.                                         *)
(***************************************************************************)
Apt(q) ==
    /\ q.op = "take_payment" => q.on \in Years
    /\ q.op = "take_payment" /\ q.spread =>
           /\ DOMAIN q.shares \subseteq DOMAIN charges \cup {0}
           /\ \A l \in DOMAIN q.shares : q.shares[l] > 0
           /\ SumFunction(q.shares) = q.amount
    /\ q.op = "approve_void" => q.on \in DOMAIN receipts
    /\ q.op = "approve_void" /\ q.spread =>
           /\ DOMAIN q.shares \subseteq DOMAIN rows
           /\ \A i \in DOMAIN q.shares :
                 rows[i].receipt = q.on /\ q.shares[i] = -rows[i].amount
    /\ q.op \in HandingBack /\ q.spread =>
           /\ DOMAIN q.shares \subseteq DOMAIN rows
           /\ \A i \in DOMAIN q.shares : q.shares[i] < 0
    /\ q.op \in Decisions => q.on \in DOMAIN refunds /\ q.amount = refunds[q.on].amount
    /\ q.op \in Settling => q.on \in Nat \ {0}
    /\ q.op \in Settling \cup {"take_payment", "return_credit", "request_refund", "grant_discount"}
           => q.amount > 0

(***************************************************************************)
(* What a request was judged by still holds, where nothing overtook it     *)
(* that could have changed it.                                             *)
(***************************************************************************)
ReceiptSeen(q) ==
    "approve_void" \notin q.overtaken =>
        /\ q.op = "approve_void" => q.on \in Issued
        /\ q.op \in HandingBack /\ q.spread =>
               \A i \in DOMAIN q.shares : rows[i].receipt \in Issued

ListSeen(q) ==
    q.op = "approve_void" /\ q.spread =>
        \/ q.overtaken \cap ({"approve_void"} \cup HandingBack) # {}
        \/ Mirrored(q.on) = DOMAIN q.shares

RefundSeen(q) ==
    q.op \in Decisions =>
        /\ "execute_refund" \notin q.overtaken => refunds[q.on].status # "EXECUTED"
        /\ q.overtaken \cap Decisions = {} => refunds[q.on].status \notin {"REJECTED", "EXECUTED"}

DepositSeen(q) ==
    q.op \in Settling /\ q.overtaken \cap Settling = {} =>
        \A d \in DOMAIN deposits : deposits[d].line # q.on

CreditSeen(q) ==
    q.op = "return_credit" /\ q.overtaken = {} => q.amount = -Balance

(***************************************************************************)
(* Two receipts of one year are never allocated at once.                   *)
(***************************************************************************)
Allocating(s) == Serving(s, "take_payment") /\ req[s].spread

OneByOne ==
    \A s, t \in Sessions :
        s # t /\ Allocating(s) /\ Allocating(t) => req[s].on # req[t].on

(***************************************************************************)
(* A payment about to be written leaves no line above its gross, or        *)
(* another year's was written since it read.                               *)
(***************************************************************************)
Fits(q) ==
    q.op = "take_payment" /\ q.spread =>
        \/ "take_payment" \in q.overtaken /\ \E r \in DOMAIN receipts : receipts[r].year # q.on
        \/ \A l \in DOMAIN q.shares \ {0} : Allocated(l) + q.shares[l] <= charges[l].gross

YearsRaced ==
    Raced({<<"take_payment", "take_payment">>}) /\ \E q, r \in DOMAIN receipts :
                                                      receipts[q].year # receipts[r].year

LinesKept ==
    \/ HandBackVoided
    \/ YearsRaced
    \/ /\ \A l \in DOMAIN charges : Allocated(l) <= charges[l].gross
       /\ \A s \in Sessions : Fits(req[s])

(***************************************************************************)
(* What rows say of themselves; a receipt in force has none reversed.      *)
(***************************************************************************)
RowsTell ==
    \A i \in DOMAIN rows :
        /\ rows[i].why = "payment" => rows[i].amount > 0
        /\ rows[i].why \in {"return", "refund"} => rows[i].amount < 0
        /\ rows[i].why = "void" \/ rows[i].reversed => rows[i].receipt \notin Issued

PaymentsOf(r) == {i \in DOMAIN rows : rows[i].receipt = r /\ rows[i].why = "payment"}

ReceiptsWhole == \A r \in DOMAIN receipts : SumRows(PaymentsOf(r)) = receipts[r].amount

DepositsTell == \A d \in DOMAIN deposits : deposits[d].amount > 0

TablesTyped ==
    /\ charges \in Seq(ChargeLine)
    /\ receipts \in Seq(Receipt)
    /\ rows \in Seq(Allocation)
    /\ \A i \in DOMAIN rows : /\ rows[i].receipt \in DOMAIN receipts
                              /\ rows[i].line \in DOMAIN charges \cup {0}
    /\ discounts \in Seq(Nat \ {0})
    /\ carried \in Nat
    /\ returns \in Seq(Nat \ {0})
    /\ refunds \in Seq(Refund)
    /\ deposits \in Seq(Settlement)

RequestsTyped ==
    /\ req = [s \in Sessions |-> req[s]]
    /\ \A s \in Sessions : IsRequest(req[s]) /\ Formed(req[s])

RequestsStand ==
    \A s \in Sessions : /\ Apt(req[s])
                        /\ ReceiptSeen(req[s]) /\ ListSeen(req[s]) /\ RefundSeen(req[s])
                        /\ DepositSeen(req[s]) /\ CreditSeen(req[s])

Inv ==
    /\ TablesTyped /\ RequestsTyped /\ raced \in SUBSET (Ops \X Ops)
    /\ RequestsStand /\ OneByOne
    /\ RowsTell /\ ReceiptsWhole /\ DepositsTell
    /\ PaidIsCollected /\ LinesKept /\ VoidUnwindsReceipt /\ DepositSettledOnce

-----------------------------------------------------------------------------
(* Rows, and sums over them. *)

Whys == {"payment", "void", "return", "refund"}

LEMMA TablesAre ==
    TablesTyped =>
        /\ DOMAIN charges = 1 .. Len(charges) /\ Len(charges) \in Nat
        /\ DOMAIN receipts = 1 .. Len(receipts) /\ Len(receipts) \in Nat
        /\ DOMAIN rows = 1 .. Len(rows) /\ Len(rows) \in Nat
        /\ DOMAIN refunds = 1 .. Len(refunds) /\ Len(refunds) \in Nat
        /\ DOMAIN deposits = 1 .. Len(deposits) /\ Len(deposits) \in Nat
        /\ DOMAIN returns = 1 .. Len(returns) /\ Len(returns) \in Nat
        /\ DOMAIN discounts = 1 .. Len(discounts) /\ Len(discounts) \in Nat
  BY LenProperties DEF TablesTyped

LEMMA RowsAre ==
    TablesTyped =>
        /\ \A i \in DOMAIN rows :
              /\ rows[i] \in Allocation
              /\ rows[i].receipt \in DOMAIN receipts /\ rows[i].receipt \in Nat \ {0}
              /\ rows[i].line \in DOMAIN charges \cup {0} /\ rows[i].line \in Nat
              /\ rows[i].amount \in Int /\ rows[i].amount # 0
              /\ rows[i].why \in Whys /\ rows[i].reversed \in BOOLEAN
        /\ \A r \in DOMAIN receipts :
              /\ receipts[r] \in Receipt
              /\ receipts[r].amount \in Nat \ {0} /\ receipts[r].year \in Years
              /\ receipts[r].status \in {"ISSUED", "VOIDED"}
        /\ \A l \in DOMAIN charges : charges[l] \in ChargeLine /\ charges[l].gross \in Nat \ {0}
<1> SUFFICES ASSUME TablesTyped
             PROVE  /\ \A i \in DOMAIN rows :
                          /\ rows[i] \in Allocation
                          /\ rows[i].receipt \in DOMAIN receipts /\ rows[i].receipt \in Nat \ {0}
                          /\ rows[i].line \in DOMAIN charges \cup {0} /\ rows[i].line \in Nat
                          /\ rows[i].amount \in Int /\ rows[i].amount # 0
                          /\ rows[i].why \in Whys /\ rows[i].reversed \in BOOLEAN
                    /\ \A r \in DOMAIN receipts :
                          /\ receipts[r] \in Receipt
                          /\ receipts[r].amount \in Nat \ {0} /\ receipts[r].year \in Years
                          /\ receipts[r].status \in {"ISSUED", "VOIDED"}
                    /\ \A l \in DOMAIN charges :
                          charges[l] \in ChargeLine /\ charges[l].gross \in Nat \ {0}
  OBVIOUS
<1>1. \A i \in DOMAIN rows : rows[i] \in Allocation
  BY TablesAre, LenProperties DEF TablesTyped
<1>2. \A r \in DOMAIN receipts : receipts[r] \in Receipt
  BY TablesAre, LenProperties DEF TablesTyped
<1>3. \A l \in DOMAIN charges : charges[l] \in ChargeLine
  BY TablesAre, LenProperties DEF TablesTyped
<1>4. ASSUME NEW i \in DOMAIN rows
      PROVE  /\ rows[i].receipt \in Nat \ {0} /\ rows[i].line \in Nat
             /\ rows[i].amount \in Int /\ rows[i].amount # 0
             /\ rows[i].why \in Whys /\ rows[i].reversed \in BOOLEAN
  BY <1>1 DEF Allocation, Whys
<1>5. \A i \in DOMAIN rows : /\ rows[i].receipt \in DOMAIN receipts
                             /\ rows[i].line \in DOMAIN charges \cup {0}
  BY DEF TablesTyped
<1>6. \A r \in DOMAIN receipts :
          /\ receipts[r].amount \in Nat \ {0} /\ receipts[r].year \in Years
          /\ receipts[r].status \in {"ISSUED", "VOIDED"}
  BY <1>2 DEF Receipt
<1>7. \A l \in DOMAIN charges : charges[l].gross \in Nat \ {0}
  BY <1>3 DEF ChargeLine
<1> QED
  BY <1>1, <1>2, <1>3, <1>4, <1>5, <1>6, <1>7

(***************************************************************************)
(* The money of the allocations of some receipts, on some lines, made for  *)
(* some reasons.                                                           *)
(***************************************************************************)
RowsIn(Rs, Ls, Ws) ==
    {i \in DOMAIN rows : rows[i].receipt \in Rs /\ rows[i].line \in Ls /\ rows[i].why \in Ws}

Amount == [i \in DOMAIN rows |-> rows[i].amount]

Money(Rs, Ls, Ws) == SumFunctionOnSet(Amount, RowsIn(Rs, Ls, Ws))

LEMMA RowsFinite ==
    TablesTyped =>
        \A I \in SUBSET DOMAIN rows : /\ IsFiniteSet(I)
                                      /\ \A i \in I : Amount[i] \in Int
                                      /\ SumFunctionOnSet(Amount, I) \in Int
<1> SUFFICES ASSUME TablesTyped, NEW I \in SUBSET DOMAIN rows
             PROVE  /\ IsFiniteSet(I)
                    /\ \A i \in I : Amount[i] \in Int
                    /\ SumFunctionOnSet(Amount, I) \in Int
  OBVIOUS
<1>1. IsFiniteSet(DOMAIN rows)
  BY TablesAre, FS_Interval
<1>2. IsFiniteSet(I)
  BY <1>1, FS_Subset
<1>3. \A i \in I : Amount[i] \in Int
  BY RowsAre DEF Amount
<1> QED
  BY <1>2, <1>3, SumTyped

LEMMA MoneyTyped == TablesTyped => \A Rs, Ls, Ws : Money(Rs, Ls, Ws) \in Int
  BY RowsFinite DEF Money, RowsIn

LEMMA SumsAreMoney ==
    TablesTyped =>
        /\ TotalPaid = Money(Issued, Nat, Whys)
        /\ \A l : Allocated(l) = Money(Issued, {l}, Whys)
        /\ \A r : SumRows({i \in DOMAIN rows : rows[i].receipt = r}) = Money({r}, Nat, Whys)
        /\ \A r : SumRows(PaymentsOf(r)) = Money({r}, Nat, {"payment"})
<1> SUFFICES ASSUME TablesTyped
             PROVE  /\ TotalPaid = Money(Issued, Nat, Whys)
                    /\ \A l : Allocated(l) = Money(Issued, {l}, Whys)
                    /\ \A r : SumRows({i \in DOMAIN rows : rows[i].receipt = r}) = Money({r}, Nat, Whys)
                    /\ \A r : SumRows(PaymentsOf(r)) = Money({r}, Nat, {"payment"})
  OBVIOUS
<1>1. \A I : SumRows(I) = SumFunctionOnSet(Amount, I)
  BY DEF SumRows, Amount
<1>2. LiveRows = RowsIn(Issued, Nat, Whys)
  BY RowsAre DEF LiveRows, RowsIn
<1>3. \A l : {i \in LiveRows : rows[i].line = l} = RowsIn(Issued, {l}, Whys)
  BY RowsAre DEF LiveRows, RowsIn
<1>4. \A r : {i \in DOMAIN rows : rows[i].receipt = r} = RowsIn({r}, Nat, Whys)
  BY RowsAre DEF RowsIn
<1>5. \A r : PaymentsOf(r) = RowsIn({r}, Nat, {"payment"})
  BY RowsAre DEF RowsIn, PaymentsOf
<1> QED
  BY <1>1, <1>2, <1>3, <1>4, <1>5 DEF TotalPaid, Allocated, Money

LEMMA MoneyNext ==
    TablesTyped' =>
        (/\ TotalPaid = Money(Issued, Nat, Whys)
         /\ \A l : Allocated(l) = Money(Issued, {l}, Whys)
         /\ \A r : SumRows({i \in DOMAIN rows : rows[i].receipt = r}) = Money({r}, Nat, Whys)
         /\ \A r : SumRows(PaymentsOf(r)) = Money({r}, Nat, {"payment"}))'
  BY SumsAreMoney, PTL

LEMMA MoneyIsNext ==
    ASSUME TablesTyped', NEW R, R = Issued'
    PROVE  /\ TotalPaid' = Money(R, Nat, Whys)'
           /\ \A l : Allocated(l)' = Money(R, {l}, Whys)'
           /\ \A r : SumRows({i \in DOMAIN rows : rows[i].receipt = r})' = Money({r}, Nat, Whys)'
           /\ \A r : SumRows(PaymentsOf(r))' = Money({r}, Nat, {"payment"})'
<1>1. \A Ls : Money(Issued, Ls, Whys)' = Money(R, Ls, Whys)'
  BY DEF Money, RowsIn
<1> QED
  BY <1>1, MoneyNext

(***************************************************************************)
(* A commit that leaves the rows there are as they were, but for the mark  *)
(* of being reversed, and writes the shares f, each as one row.            *)
(***************************************************************************)
Written(f, n, at) ==
    /\ n \in Nat /\ DOMAIN rows' = 1 .. (Len(rows) + n)
    /\ \A i \in DOMAIN rows : /\ rows'[i].receipt = rows[i].receipt
                              /\ rows'[i].line = rows[i].line
                              /\ rows'[i].amount = rows[i].amount
                              /\ rows'[i].why = rows[i].why
    /\ \A k \in 1 .. n : at[k] \in DOMAIN f
    /\ \A j, k \in 1 .. n : at[j] = at[k] => j = k
    /\ \A x \in DOMAIN f : \E k \in 1 .. n : at[k] = x
    /\ \A k \in 1 .. n : rows'[Len(rows) + k].amount = f[at[k]]

LEMMA MoneyWritten ==
    ASSUME TablesTyped, NEW f, IsFiniteSet(DOMAIN f), \A x \in DOMAIN f : f[x] \in Int,
           NEW n, NEW at, Written(f, n, at),
           NEW Rs, NEW Ls, NEW Ws, NEW P \in SUBSET DOMAIN f,
           \A k \in 1 .. n : (/\ rows'[Len(rows) + k].receipt \in Rs
                              /\ rows'[Len(rows) + k].line \in Ls
                              /\ rows'[Len(rows) + k].why \in Ws) <=> at[k] \in P
    PROVE  Money(Rs, Ls, Ws)' = Money(Rs, Ls, Ws) + SumFunctionOnSet(f, P)
<1> DEFINE old == RowsIn(Rs, Ls, Ws)
           K == {k \in 1 .. n : at[k] \in P}
           b == [k \in K |-> Len(rows) + k]
           new == {b[k] : k \in K}
           g == [k \in K |-> f[at[k]]]
<1>1. PICK after : after = Amount'
  OBVIOUS
<1>2. n \in Nat /\ Len(rows) \in Nat /\ DOMAIN rows = 1 .. Len(rows)
  BY TablesAre DEF Written
<1>3. PICK both : both = RowsIn(Rs, Ls, Ws)'
  OBVIOUS
<1>4. both = {i \in DOMAIN rows' : rows'[i].receipt \in Rs /\ rows'[i].line \in Ls /\ rows'[i].why \in Ws}
  BY <1>3 DEF RowsIn
<1>5. Money(Rs, Ls, Ws)' = SumFunctionOnSet(after, both)
  BY <1>1, <1>3 DEF Money
<1>6. \A i \in DOMAIN rows' : after[i] = rows'[i].amount
  BY <1>1 DEF Amount
<1>7. IsFiniteSet(K) /\ IsFiniteSet(new)
  <2>1. IsFiniteSet(1 .. n) /\ IsFiniteSet(1 .. (Len(rows) + n))
    BY <1>2, FS_Interval
  <2>2. K \in SUBSET (1 .. n) /\ new \in SUBSET (1 .. (Len(rows) + n))
    <3>1. \A k \in 1 .. n : Len(rows) + k \in 1 .. (Len(rows) + n)
      BY <1>2
    <3>2. new = {Len(rows) + k : k \in K} /\ K \subseteq 1 .. n
      OBVIOUS
    <3> HIDE DEF K, new
    <3> QED
      BY <3>1, <3>2
  <2> HIDE DEF K, new
  <2> QED
    BY <2>1, <2>2, FS_Subset
<1>8. IsFiniteSet(old) /\ old \in SUBSET DOMAIN rows /\ \A i \in old : Amount[i] \in Int
  <2>1. old \in SUBSET DOMAIN rows
    BY DEF RowsIn
  <2> QED
    BY <2>1, RowsFinite
<1>9. both = old \cup new /\ old \cap new = {}
  <2>1. DOMAIN rows' = DOMAIN rows \cup {Len(rows) + k : k \in 1 .. n}
    <3>1. ASSUME NEW i PROVE i \in 1 .. (Len(rows) + n) <=> i \in 1 .. Len(rows) \/ \E k \in 1 .. n : i = Len(rows) + k
      <4>1. ASSUME i \in 1 .. (Len(rows) + n), i \notin 1 .. Len(rows) PROVE \E k \in 1 .. n : i = Len(rows) + k
        <5>1. i - Len(rows) \in 1 .. n /\ i = Len(rows) + (i - Len(rows))
          BY <1>2, <4>1
        <5> QED
          BY <5>1
      <4>2. \A k \in 1 .. n : Len(rows) + k \in 1 .. (Len(rows) + n)
        BY <1>2
      <4>3. i \in 1 .. Len(rows) => i \in 1 .. (Len(rows) + n)
        BY <1>2
      <4> QED
        BY <4>1, <4>2, <4>3
    <3>2. DOMAIN rows' = 1 .. (Len(rows) + n)
      BY DEF Written
    <3> QED
      BY <1>2, <3>1, <3>2
  <2>2. new = {Len(rows) + k : k \in K}
    OBVIOUS
  <2>3. \A i \in DOMAIN rows : i \in both <=> i \in old
    BY <1>4, <2>1 DEF RowsIn, Written
  <2>4. \A k \in 1 .. n : Len(rows) + k \in both <=> k \in K
    BY <1>4, <2>1
  <2>5. \A k \in 1 .. n : Len(rows) + k \notin DOMAIN rows
    BY <1>2
  <2>6. both \subseteq DOMAIN rows'
    BY <1>4
  <2>7. K \subseteq 1 .. n
    OBVIOUS
  <2>8. ASSUME NEW i PROVE i \in both <=> i \in old \cup new
    <3>1. CASE i \in DOMAIN rows
      <4>1. i \notin new
        <5> HIDE DEF K
        <5> QED BY <2>2, <2>5, <2>7, <3>1
      <4> HIDE DEF new, old
      <4> QED BY <2>3, <3>1, <4>1
    <3>2. CASE i \notin DOMAIN rows
      <4>1. i \notin old
        BY <1>8, <3>2
      <4> HIDE DEF old, K, new
      <4>2. i \in both => i \in new
        BY <2>1, <2>2, <2>4, <2>6, <3>2
      <4>3. i \in new => i \in both
        BY <2>2, <2>4, <2>7
      <4> QED
        BY <4>1, <4>2, <4>3
    <3> QED
      BY <3>1, <3>2
  <2>9. \A i \in new : i \notin old
    <3> HIDE DEF K, old
    <3> QED
      BY <1>8, <2>2, <2>5, <2>7
  <2> HIDE DEF old, new
  <2> QED
    BY <2>8, <2>9
<1>15. \A i \in old : Amount[i] \in Int /\ after[i] = Amount[i]
  <2>1. \A i \in DOMAIN rows : i \in DOMAIN rows'
    BY <1>2 DEF Written
  <2> QED
    BY <1>6, <1>8, <2>1 DEF Amount, Written
<1>10. SumFunctionOnSet(after, old) = SumFunctionOnSet(Amount, old)
  <2> HIDE DEF old
  <2> QED
    BY <1>8, <1>15, SumSame
<1>11. \A k \in K : g[k] \in Int /\ after[b[k]] = g[k] /\ f[at[k]] = g[k]
  <2>1. ASSUME NEW k \in K PROVE g[k] \in Int /\ after[b[k]] = g[k] /\ f[at[k]] = g[k]
    <3>1. k \in 1 .. n /\ at[k] \in DOMAIN f
      BY DEF Written
    <3>2. Len(rows) + k \in DOMAIN rows'
      BY <1>2, <3>1 DEF Written
    <3>3. after[Len(rows) + k] = f[at[k]]
      BY <1>6, <3>1, <3>2 DEF Written
    <3> QED
      BY <3>1, <3>3
  <2> QED
    BY <2>1
<1>12. SumFunctionOnSet(after, new) = SumFunctionOnSet(g, K)
  <2>1. \A j, k \in K : b[j] = b[k] => j = k
    BY <1>2
  <2> HIDE DEF b, g, K
  <2> QED
    BY <1>7, <1>11, <2>1, SumOverPlaces
<1>13. SumFunctionOnSet(f, P) = SumFunctionOnSet(g, K)
  <2>1. \A j, k \in K : at[j] = at[k] => j = k
    BY DEF Written
  <2>2. P = {at[k] : k \in K}
    <3>1. \A x \in P : \E k \in 1 .. n : at[k] = x
      BY DEF Written
    <3> QED
      BY <3>1
  <2>3. PICK places, shares : places = K /\ shares = g
    OBVIOUS
  <2>4. /\ IsFiniteSet(places) /\ \A j, k \in places : at[j] = at[k] => j = k
        /\ \A k \in places : shares[k] \in Int /\ f[at[k]] = shares[k]
    <3> HIDE DEF g, K
    <3> QED
      BY <1>7, <1>11, <2>1, <2>3
  <2>5. SumFunctionOnSet(f, {at[k] : k \in places}) = SumFunctionOnSet(shares, places)
    BY <2>4, SumOverPlaces
  <2> HIDE DEF g, K
  <2> QED
    BY <2>2, <2>3, <2>5
<1>14. \A i \in old \cup new : after[i] \in Int
  <2>1. \A i \in old : after[i] \in Int
    <3> HIDE DEF old
    <3> QED
      BY <1>15
  <2>2. \A i \in new : after[i] \in Int
    <3> HIDE DEF b, g, K
    <3> QED
      BY <1>11
  <2> QED
    BY <2>1, <2>2
<1> HIDE DEF old, new, K, g, b
<1> QED
  BY <1>5, <1>7, <1>8, <1>9, <1>10, <1>12, <1>13, <1>14, SumTogether DEF Money, old

Joined(after, old, new) == after = old \o new

(***************************************************************************)
(* The table after n rows were added to it.                                *)
(***************************************************************************)
Lengthened(after, old, m, n, new) ==
    /\ after \in Seq(Allocation) /\ Len(after) = m + n
    /\ \A i \in 1 .. m : after[i] = old[i]
    /\ \A k \in 1 .. n : after[m + k] = new[k]

LEMMA RowsJoined ==
    ASSUME NEW old \in Seq(Allocation), NEW m, m = Len(old), NEW n \in Nat,
           NEW new \in [1 .. n -> Allocation], NEW after, Joined(after, old, new)
    PROVE  Lengthened(after, old, m, n, new)
<1>0. after = old \o new
  BY DEF Joined
<1>1. new \in Seq(Allocation)
  BY SeqDef
<1>2. Len(new) = n /\ m \in Nat
  <2>1. Len(new) \in Nat /\ DOMAIN new = 1 .. Len(new) /\ DOMAIN new = 1 .. n /\ Len(old) \in Nat
    BY <1>1, LenProperties
  <2> QED
    BY <2>1
<1>4. after \in Seq(Allocation) /\ Len(after) = m + n
  <2>1. /\ old \o new \in Seq(Allocation)
        /\ Len(old \o new) = Len(old) + Len(new)
    BY <1>1, ConcatProperties, Zenon
  <2> QED
    BY <1>0, <1>2, <2>1, Zenon
<1>5. \A i \in 1 .. m + n : after[i] = IF i <= m THEN old[i] ELSE new[i - m]
  <2>1. \A i \in 1 .. Len(old) + Len(new) :
            (old \o new)[i] = IF i <= Len(old) THEN old[i] ELSE new[i - Len(old)]
    BY <1>1, ConcatProperties, Zenon
  <2> QED
    BY <1>0, <1>2, <2>1, Zenon
<1>7. ASSUME NEW i \in 1 .. m PROVE after[i] = old[i]
  <2>1. i \in 1 .. m + n /\ i <= m
    BY <1>2
  <2> QED
    BY <1>5, <2>1
<1>8. ASSUME NEW k \in 1 .. n PROVE after[m + k] = new[k]
  <2>1. m + k \in 1 .. m + n /\ ~(m + k <= m) /\ (m + k) - m = k
    BY <1>2
  <2> QED
    BY <1>5, <2>1
<1> QED
  BY <1>4, <1>7, <1>8 DEF Lengthened

(***************************************************************************)
(* What a payment writes.                                                  *)
(***************************************************************************)
PaidIn(f, n, at) ==
    /\ Written(f, n, at)
    /\ rows' \in Seq(Allocation)
    /\ \A i \in DOMAIN rows : rows'[i] = rows[i]
    /\ \A k \in 1 .. n : /\ rows'[Len(rows) + k].receipt = Len(receipts) + 1
                         /\ rows'[Len(rows) + k].line = at[k]
                         /\ rows'[Len(rows) + k].why = "payment"
                         /\ ~rows'[Len(rows) + k].reversed

LEMMA PaymentWritten ==
    ASSUME TablesTyped, NEW f, DOMAIN f \subseteq DOMAIN charges \cup {0},
           \A x \in DOMAIN f : f[x] \in Int \ {0}, Joined(rows', rows, PaymentRows(f))
    PROVE  /\ IsFiniteSet(DOMAIN f)
           /\ \E n, at : PaidIn(f, n, at)
<1> DEFINE S == DOMAIN f
<1>1. S \in SUBSET Nat /\ IsFiniteSet(S)
  <2>1. IsFiniteSet(DOMAIN charges) /\ DOMAIN charges \subseteq Nat
    <3>1. DOMAIN charges = 1 .. Len(charges) /\ Len(charges) \in Nat
      BY TablesAre
    <3>2. IsFiniteSet(1 .. Len(charges))
      BY <3>1, FS_Interval
    <3> QED
      BY <3>1, <3>2
  <2>2. IsFiniteSet(DOMAIN charges \cup {0})
    BY <2>1, FS_AddElement
  <2> QED
    BY <2>1, <2>2, FS_Subset
<1>2. PICK at : at = Ascending(S)
  OBVIOUS
<1>3. PICK n : n = Cardinality(S)
  OBVIOUS
<1>4. /\ n \in Nat /\ DOMAIN at = 1 .. n
      /\ \A k \in DOMAIN at : at[k] \in S
      /\ \A j, k \in DOMAIN at : at[j] = at[k] => j = k
      /\ \A x \in S : \E k \in DOMAIN at : at[k] = x
  <2> HIDE DEF S
  <2> QED
    BY <1>1, <1>2, <1>3, AscendingIs
<1>5. PICK new : new = PaymentRows(f)
  OBVIOUS
<1>6. new = [k \in DOMAIN at |->
                [receipt |-> Len(receipts) + 1, line |-> at[k], amount |-> f[at[k]],
                 why |-> "payment", reversed |-> FALSE]]
  BY <1>2, <1>5 DEF PaymentRows
<1>7. DOMAIN new = 1 .. n /\ new = [k \in DOMAIN new |-> new[k]]
  BY <1>4, <1>6
<1>8. \A k \in 1 .. n : new[k] = [receipt |-> Len(receipts) + 1, line |-> at[k], amount |-> f[at[k]],
                                  why |-> "payment", reversed |-> FALSE]
  BY <1>4, <1>6
<1>9. ASSUME NEW k \in 1 .. n
      PROVE  /\ new[k] \in Allocation
             /\ new[k].receipt = Len(receipts) + 1 /\ new[k].line = at[k] /\ new[k].amount = f[at[k]]
             /\ new[k].why = "payment" /\ ~new[k].reversed
  <2>1. Len(receipts) + 1 \in Nat \ {0}
    BY TablesAre
  <2>2. at[k] \in Nat /\ f[at[k]] \in Int \ {0}
    BY <1>1, <1>4
  <2>3. [receipt |-> Len(receipts) + 1, line |-> at[k], amount |-> f[at[k]],
         why |-> "payment", reversed |-> FALSE] \in Allocation
    BY <2>1, <2>2 DEF Allocation
  <2>4. new[k] = [receipt |-> Len(receipts) + 1, line |-> at[k], amount |-> f[at[k]],
                  why |-> "payment", reversed |-> FALSE]
    BY <1>8
  <2>5. new[k].receipt = Len(receipts) + 1 /\ new[k].line = at[k] /\ new[k].amount = f[at[k]]
    BY <2>4
  <2>6. new[k].why = "payment" /\ ~new[k].reversed
    BY <2>4
  <2> QED
    BY <2>3, <2>4, <2>5, <2>6, Zenon
<1>10. rows \in Seq(Allocation) /\ DOMAIN rows = 1 .. Len(rows)
  BY TablesAre DEF TablesTyped
<1>11. /\ rows' \in Seq(Allocation) /\ DOMAIN rows' = 1 .. (Len(rows) + n)
       /\ \A i \in 1 .. Len(rows) : rows'[i] = rows[i]
       /\ \A k \in 1 .. n : rows'[Len(rows) + k] = new[k]
  <2>1. PICK after : after = rows'
    OBVIOUS
  <2>2. PICK m : m = Len(rows)
    OBVIOUS
  <2>3. new \in [1 .. n -> Allocation]
    BY <1>7, <1>9
  <2>4. PICK table : table = rows
    OBVIOUS
  <2>5. table \in Seq(Allocation) /\ m = Len(table) /\ Joined(after, table, new)
    BY <1>5, <1>10, <2>1, <2>2, <2>4
  <2>6. n \in Nat
    BY <1>4
  <2>7. Lengthened(after, table, m, n, new)
    BY <2>3, <2>5, <2>6, RowsJoined
  <2>8. DOMAIN after = 1 .. (m + n)
    BY <2>7, LenProperties DEF Lengthened
  <2> QED
    BY <2>1, <2>2, <2>4, <2>7, <2>8 DEF Lengthened
<1>12. Written(f, n, at)
  BY <1>4, <1>9, <1>10, <1>11 DEF Written
<1>13. /\ \A i \in DOMAIN rows : rows'[i] = rows[i]
       /\ \A k \in 1 .. n :
             /\ rows'[Len(rows) + k].receipt = Len(receipts) + 1
             /\ rows'[Len(rows) + k].line = at[k]
             /\ rows'[Len(rows) + k].why = "payment"
             /\ ~rows'[Len(rows) + k].reversed
  <2>1. \A i \in DOMAIN rows : rows'[i] = rows[i]
    BY <1>10, <1>11
  <2>2. \A k \in 1 .. n : rows'[Len(rows) + k] = new[k]
    BY <1>11
  <2>3. ASSUME NEW k \in 1 .. n
        PROVE  /\ rows'[Len(rows) + k].receipt = Len(receipts) + 1
               /\ rows'[Len(rows) + k].line = at[k]
               /\ rows'[Len(rows) + k].why = "payment"
               /\ ~rows'[Len(rows) + k].reversed
    <3>1. PICK rec : rec = new[k]
      OBVIOUS
    <3>2. rows'[Len(rows) + k] = rec
      BY <2>2, <3>1
    <3>3. rec.receipt = Len(receipts) + 1 /\ rec.line = at[k] /\ rec.why = "payment" /\ ~rec.reversed
      BY <1>9, <3>1
    <3> QED
      BY <3>2, <3>3
  <2> QED
    BY <2>1, <2>3
<1>14. PaidIn(f, n, at)
  BY <1>11, <1>12, <1>13 DEF PaidIn
<1> QED
  BY <1>1, <1>14


(***************************************************************************)
(* What a reversal writes, over rows that kept what they say.              *)
(***************************************************************************)
TurnedBack(f, why, old, n, at) ==
    /\ Written(f, n, at)
    /\ rows' \in Seq(Allocation)
    /\ \A i \in DOMAIN rows : rows'[i] = old[i]
    /\ \A k \in 1 .. n : /\ rows'[Len(rows) + k].receipt = rows[at[k]].receipt
                         /\ rows'[Len(rows) + k].line = rows[at[k]].line
                         /\ rows'[Len(rows) + k].why = why
                         /\ ~rows'[Len(rows) + k].reversed

Keeps(old) ==
    /\ old \in Seq(Allocation) /\ Len(old) = Len(rows)
    /\ \A i \in DOMAIN rows : /\ old[i].receipt = rows[i].receipt
                              /\ old[i].line = rows[i].line
                              /\ old[i].amount = rows[i].amount
                              /\ old[i].why = rows[i].why

LEMMA ReversalWritten ==
    ASSUME TablesTyped, NEW f, DOMAIN f \subseteq DOMAIN rows,
           \A x \in DOMAIN f : f[x] \in Int \ {0}, NEW why \in {"void", "return", "refund"},
           NEW old, Keeps(old),
           Joined(rows', old, Reversals(f, why))
    PROVE  /\ IsFiniteSet(DOMAIN f)
           /\ \E n, at : TurnedBack(f, why, old, n, at)
<1> DEFINE S == DOMAIN f
<1>1. S \in SUBSET Nat /\ IsFiniteSet(S)
  <2>1. IsFiniteSet(DOMAIN rows) /\ DOMAIN rows \subseteq Nat
    <3>1. DOMAIN rows = 1 .. Len(rows) /\ Len(rows) \in Nat
      BY TablesAre
    <3>2. IsFiniteSet(1 .. Len(rows))
      BY <3>1, FS_Interval
    <3> QED
      BY <3>1, <3>2
  <2> QED
    BY <2>1, FS_Subset
<1>2. PICK at : at = Ascending(S)
  OBVIOUS
<1>3. PICK n : n = Cardinality(S)
  OBVIOUS
<1>4. /\ n \in Nat /\ DOMAIN at = 1 .. n
      /\ \A k \in DOMAIN at : at[k] \in S
      /\ \A j, k \in DOMAIN at : at[j] = at[k] => j = k
      /\ \A x \in S : \E k \in DOMAIN at : at[k] = x
  <2> HIDE DEF S
  <2> QED
    BY <1>1, <1>2, <1>3, AscendingIs
<1>5. PICK new : new = Reversals(f, why)
  OBVIOUS
<1>6. new = [k \in DOMAIN at |->
                [receipt |-> rows[at[k]].receipt, line |-> rows[at[k]].line, amount |-> f[at[k]],
                 why |-> why, reversed |-> FALSE]]
  BY <1>2, <1>5 DEF Reversals
<1>7. DOMAIN new = 1 .. n /\ new = [k \in DOMAIN new |-> new[k]]
  BY <1>4, <1>6
<1>8. \A k \in 1 .. n : new[k] = [receipt |-> rows[at[k]].receipt, line |-> rows[at[k]].line,
                                  amount |-> f[at[k]], why |-> why, reversed |-> FALSE]
  BY <1>4, <1>6
<1>9. ASSUME NEW k \in 1 .. n
      PROVE  /\ new[k] \in Allocation
             /\ new[k].receipt = rows[at[k]].receipt /\ new[k].line = rows[at[k]].line
             /\ new[k].amount = f[at[k]] /\ new[k].why = why /\ ~new[k].reversed
  <2>1. at[k] \in DOMAIN rows
    BY <1>4
  <2>2. rows[at[k]].receipt \in Nat \ {0} /\ rows[at[k]].line \in Nat
    BY <2>1, RowsAre
  <2>3. f[at[k]] \in Int \ {0}
    BY <1>4
  <2>4. [receipt |-> rows[at[k]].receipt, line |-> rows[at[k]].line, amount |-> f[at[k]],
         why |-> why, reversed |-> FALSE] \in Allocation
    BY <2>2, <2>3 DEF Allocation
  <2>5. new[k] = [receipt |-> rows[at[k]].receipt, line |-> rows[at[k]].line, amount |-> f[at[k]],
                  why |-> why, reversed |-> FALSE]
    BY <1>8
  <2>6. new[k].receipt = rows[at[k]].receipt /\ new[k].line = rows[at[k]].line
        /\ new[k].amount = f[at[k]]
    BY <2>5
  <2>7. new[k].why = why /\ ~new[k].reversed
    BY <2>5
  <2> QED
    BY <2>4, <2>5, <2>6, <2>7, Zenon
<1>10. DOMAIN rows = 1 .. Len(rows)
  BY TablesAre
<1>11. /\ rows' \in Seq(Allocation) /\ DOMAIN rows' = 1 .. (Len(rows) + n)
       /\ \A i \in 1 .. Len(rows) : rows'[i] = old[i]
       /\ \A k \in 1 .. n : rows'[Len(rows) + k] = new[k]
  <2>1. PICK after : after = rows'
    OBVIOUS
  <2>2. PICK m : m = Len(rows)
    OBVIOUS
  <2>3. new \in [1 .. n -> Allocation]
    BY <1>7, <1>9
  <2>4. PICK table : table = old
    OBVIOUS
  <2>5. table \in Seq(Allocation) /\ m = Len(table) /\ Joined(after, table, new)
    BY <1>5, <2>1, <2>2, <2>4 DEF Keeps
  <2>6. n \in Nat
    BY <1>4
  <2>7. Lengthened(after, table, m, n, new)
    BY <2>3, <2>5, <2>6, RowsJoined
  <2>8. DOMAIN after = 1 .. (m + n)
    BY <2>7, LenProperties DEF Lengthened
  <2> QED
    BY <2>1, <2>2, <2>4, <2>7, <2>8 DEF Lengthened
<1>12. Written(f, n, at)
  <2>1. \A i \in DOMAIN rows : /\ rows'[i].receipt = rows[i].receipt
                               /\ rows'[i].line = rows[i].line
                               /\ rows'[i].amount = rows[i].amount
                               /\ rows'[i].why = rows[i].why
    BY <1>10, <1>11 DEF Keeps
  <2>2. \A k \in 1 .. n : rows'[Len(rows) + k].amount = f[at[k]]
    BY <1>9, <1>11
  <2> QED
    BY <1>4, <1>11, <2>1, <2>2 DEF Written
<1>13. /\ \A i \in DOMAIN rows : rows'[i] = old[i]
       /\ \A k \in 1 .. n :
             /\ rows'[Len(rows) + k].receipt = rows[at[k]].receipt
             /\ rows'[Len(rows) + k].line = rows[at[k]].line
             /\ rows'[Len(rows) + k].why = why
             /\ ~rows'[Len(rows) + k].reversed
  <2>1. \A i \in DOMAIN rows : rows'[i] = old[i]
    BY <1>10, <1>11
  <2>2. \A k \in 1 .. n : rows'[Len(rows) + k] = new[k]
    BY <1>11
  <2> QED
    BY <1>9, <2>1, <2>2
<1>14. TurnedBack(f, why, old, n, at)
  BY <1>11, <1>12, <1>13 DEF TurnedBack
<1> QED
  BY <1>1, <1>14

-----------------------------------------------------------------------------
(* What a step leaves alone. *)

Ledger ==
    /\ TablesTyped /\ RowsTell /\ ReceiptsWhole /\ DepositsTell
    /\ PaidIsCollected /\ VoidUnwindsReceipt /\ DepositSettledOnce

LEMMA RowsStay ==
    ASSUME UNCHANGED <<receipts, rows>>
    PROVE  /\ Issued' = Issued /\ LiveRows' = LiveRows
           /\ \A I : SumRows(I)' = SumRows(I)
           /\ TotalPaid' = TotalPaid
           /\ \A l : Allocated(l)' = Allocated(l)
           /\ \A r : PaymentsOf(r)' = PaymentsOf(r)
           /\ \A R : Collected(R)' = Collected(R)
           /\ Collected(Issued)' = Collected(Issued)
           /\ HandBackVoided' <=> HandBackVoided
<1>1. PICK R, A : R = receipts /\ A = rows /\ receipts' = R /\ rows' = A
  OBVIOUS
<1>2. Issued' = Issued
  BY <1>1 DEF Issued
<1>3. LiveRows' = LiveRows
  BY <1>1, <1>2 DEF LiveRows
<1>4. \A I : SumRows(I)' = SumRows(I)
  BY <1>1 DEF SumRows
<1>5. TotalPaid' = TotalPaid
  <2>1. TotalPaid' = SumRows(LiveRows)'
    BY DEF TotalPaid
  <2>2. SumRows(LiveRows)' = SumFunctionOnSet([i \in DOMAIN rows' |-> rows'[i].amount], LiveRows')
    BY DEF SumRows
  <2>3. SumRows(LiveRows) = SumFunctionOnSet([i \in DOMAIN rows |-> rows[i].amount], LiveRows)
    BY DEF SumRows
  <2> QED
    BY <1>1, <1>3, <2>1, <2>2, <2>3 DEF TotalPaid
<1>6. \A l : Allocated(l)' = Allocated(l)
  BY <1>1, <1>3 DEF Allocated, SumRows
<1>7. \A r : PaymentsOf(r)' = PaymentsOf(r)
  BY <1>1 DEF PaymentsOf
<1>8. \A S : Collected(S)' = Collected(S)
  BY <1>1 DEF Collected
<1>9. Collected(Issued)' = Collected(Issued)
  BY <1>1, <1>2 DEF Collected
<1>10. HandBackVoided' <=> HandBackVoided
  BY <1>1, <1>2 DEF HandBackVoided
<1> QED
  BY <1>2, <1>3, <1>4, <1>5, <1>6, <1>7, <1>8, <1>9, <1>10

LEMMA ListStays == ASSUME UNCHANGED rows PROVE \A r : Mirrored(r)' = Mirrored(r)
  BY DEF Mirrored

LEMMA TablesStay ==
    ASSUME UNCHANGED <<charges, receipts, rows, discounts, carried, returns, refunds, deposits, raced>>
    PROVE  /\ Ledger => Ledger'
           /\ YearsRaced' <=> YearsRaced
           /\ Balance' = Balance
           /\ \A q : /\ Apt(q)' <=> Apt(q)
                     /\ ReceiptSeen(q)' <=> ReceiptSeen(q)
                     /\ ListSeen(q)' <=> ListSeen(q)
                     /\ RefundSeen(q)' <=> RefundSeen(q)
                     /\ DepositSeen(q)' <=> DepositSeen(q)
                     /\ Fits(q)' <=> Fits(q)
<1>1. UNCHANGED <<receipts, rows>>
  OBVIOUS
<1>2. Raced(Decisions \X {"execute_refund"})' <=> Raced(Decisions \X {"execute_refund"})
  BY DEF Raced
<1>3. PaidOut' = PaidOut
  BY DEF PaidOut, Executed, Total
<1>4. PaidIsCollected' <=> PaidIsCollected
  <2>1. Collected(Issued)' = Collected(Issued) /\ TotalPaid' = TotalPaid
        /\ (HandBackVoided' <=> HandBackVoided)
    BY <1>1, RowsStay
  <2> QED
    BY <1>2, <1>3, <2>1 DEF PaidIsCollected
<1>5. VoidUnwindsReceipt' <=> VoidUnwindsReceipt
  <2>1. \A r : SumRows({i \in DOMAIN rows : rows[i].receipt = r})'
             = SumRows({i \in DOMAIN rows : rows[i].receipt = r})
    BY <1>1 DEF SumRows
  <2>2. Issued' = Issued
    BY <1>1, RowsStay
  <2>3. Raced(VoidRaces)' <=> Raced(VoidRaces)
    BY DEF Raced, VoidRaces, HandingBack
  <2> QED
    BY <2>1, <2>2, <2>3 DEF VoidUnwindsReceipt
<1>6. DepositSettledOnce' <=> DepositSettledOnce
  BY DEF DepositSettledOnce, Raced
<1>7. TablesTyped' <=> TablesTyped
  BY DEF TablesTyped
<1>8. RowsTell' <=> RowsTell
  BY <1>1, RowsStay DEF RowsTell
<1>9. ReceiptsWhole' <=> ReceiptsWhole
  <2>1. \A r : SumRows(PaymentsOf(r))' = SumRows(PaymentsOf(r))
    BY <1>1 DEF SumRows, PaymentsOf
  <2> QED
    BY <2>1 DEF ReceiptsWhole
<1>10. DepositsTell' <=> DepositsTell
  BY DEF DepositsTell
<1>11. Ledger => Ledger'
  BY <1>4, <1>5, <1>6, <1>7, <1>8, <1>9, <1>10 DEF Ledger
<1>12. YearsRaced' <=> YearsRaced
  BY DEF YearsRaced, Raced
<1>13. Balance' = Balance
  <2>1. TotalDue' = TotalDue /\ Total(discounts)' = Total(discounts)
    BY DEF TotalDue, Total
  <2>2. TotalPaid' = TotalPaid
    BY <1>1, RowsStay
  <2> QED
    BY <2>1, <2>2 DEF Balance
<1>14. ASSUME NEW q
       PROVE  /\ Apt(q)' <=> Apt(q)
              /\ ReceiptSeen(q)' <=> ReceiptSeen(q)
              /\ ListSeen(q)' <=> ListSeen(q)
              /\ RefundSeen(q)' <=> RefundSeen(q)
              /\ DepositSeen(q)' <=> DepositSeen(q)
              /\ Fits(q)' <=> Fits(q)
  <2>1. Apt(q)' <=> Apt(q)
    BY DEF Apt
  <2>2. ReceiptSeen(q)' <=> ReceiptSeen(q)
    <3>1. Issued' = Issued
      BY <1>1, RowsStay
    <3> QED
      BY <3>1 DEF ReceiptSeen
  <2>3. RefundSeen(q)' <=> RefundSeen(q)
    BY DEF RefundSeen
  <2>4. DepositSeen(q)' <=> DepositSeen(q)
    BY DEF DepositSeen
  <2>5. Fits(q)' <=> Fits(q)
    <3>1. \A l : Allocated(l)' = Allocated(l)
      BY <1>1, RowsStay
    <3> QED
      BY <3>1 DEF Fits
  <2>6. ListSeen(q)' <=> ListSeen(q)
    BY <1>1, ListStays DEF ListSeen
  <2> QED
    BY <2>1, <2>2, <2>3, <2>4, <2>5, <2>6
<1> QED
  BY <1>11, <1>12, <1>13, <1>14

-----------------------------------------------------------------------------
(* Requests that read. *)

Sound(q) ==
    /\ IsRequest(q) /\ Formed(q) /\ Apt(q)
    /\ ReceiptSeen(q) /\ ListSeen(q) /\ RefundSeen(q) /\ DepositSeen(q) /\ CreditSeen(q)

LEMMA InvIs ==
    Inv <=> /\ Ledger /\ LinesKept /\ OneByOne
            /\ raced \in SUBSET (Ops \X Ops)
            /\ req = [s \in Sessions |-> req[s]]
            /\ \A s \in Sessions : Sound(req[s])
  BY DEF Inv, Ledger, RequestsTyped, RequestsStand, Sound

LEMMA InvIsNext ==
    Inv' <=> (/\ Ledger /\ LinesKept /\ OneByOne
              /\ raced \in SUBSET (Ops \X Ops)
              /\ req = [s \in Sessions |-> req[s]]
              /\ \A s \in Sessions : Sound(req[s]))'
  BY InvIs, PTL

LEMMA ReadKeeps ==
    ASSUME Inv, NEW s \in Sessions, NEW q, req' = [req EXCEPT ![s] = q],
           UNCHANGED <<charges, receipts, rows, discounts, carried, returns, refunds, deposits, raced>>,
           Sound(q), HandBackVoided \/ YearsRaced \/ Fits(q),
           q.op = "take_payment" /\ q.spread =>
               \A t \in Sessions : t # s /\ Allocating(t) => req[t].on # q.on
    PROVE  Inv'
<1>1. /\ Ledger /\ LinesKept /\ OneByOne /\ raced \in SUBSET (Ops \X Ops)
      /\ req = [t \in Sessions |-> req[t]] /\ \A t \in Sessions : Sound(req[t])
  BY InvIs
<1>2. PICK after : after = req'
  OBVIOUS
<1>3. after = [t \in Sessions |-> IF t = s THEN q ELSE req[t]]
  BY <1>1, <1>2
<1>4. \A t \in Sessions : after[t] = IF t = s THEN q ELSE req[t]
  BY <1>3
<1>5. Ledger' /\ raced' \in SUBSET (Ops \X Ops)
  BY <1>1, TablesStay
<1>6. ASSUME NEW r, Sound(r) PROVE Sound(r)'
  <2>1. IsRequest(r)' /\ Formed(r)'
    BY <1>6 DEF Sound, IsRequest, Formed
  <2>2. Apt(r)' /\ ReceiptSeen(r)' /\ ListSeen(r)' /\ RefundSeen(r)' /\ DepositSeen(r)'
    BY <1>6, TablesStay DEF Sound
  <2>3. CreditSeen(r)'
    BY <1>6, TablesStay DEF Sound, CreditSeen
  <2> QED
    BY <2>1, <2>2, <2>3 DEF Sound
<1>7. ASSUME NEW t \in Sessions PROVE Sound(req[t])'
  <2>1. PICK r : r = after[t]
    OBVIOUS
  <2>2. Sound(r)
    BY <1>1, <1>4, <2>1
  <2>3. Sound(r)'
    BY <1>6, <2>2
  <2> QED
    BY <1>2, <2>1, <2>3 DEF Sound, IsRequest, Formed, Apt, ReceiptSeen, ListSeen, RefundSeen,
                                       DepositSeen, CreditSeen
<1>8. OneByOne'
  <2> SUFFICES ASSUME NEW t \in Sessions, NEW u \in Sessions, t # u,
                      Allocating(t)', Allocating(u)'
               PROVE  req'[t].on # req'[u].on
    BY DEF OneByOne
  <2>1. \A v \in Sessions : Allocating(v)' <=> after[v].op = "take_payment" /\ after[v].spread
    BY <1>2 DEF Allocating, Serving
  <2>2. \A v \in Sessions : Allocating(v) <=> req[v].op = "take_payment" /\ req[v].spread
    BY DEF Allocating, Serving
  <2>3. CASE t = s
    BY <1>2, <1>4, <2>1, <2>2, <2>3
  <2>4. CASE u = s
    BY <1>2, <1>4, <2>1, <2>2, <2>4
  <2>5. CASE t # s /\ u # s
    BY <1>1, <1>2, <1>4, <2>1, <2>2, <2>5 DEF OneByOne
  <2> QED
    BY <2>3, <2>4, <2>5
<1>9. LinesKept'
  <2>1. (HandBackVoided' <=> HandBackVoided) /\ (YearsRaced' <=> YearsRaced)
    BY RowsStay, TablesStay
  <2>2. \A l : Allocated(l)' = Allocated(l)
    BY RowsStay
  <2>3. CASE HandBackVoided \/ YearsRaced
    BY <2>1, <2>3 DEF LinesKept
  <2>4. CASE ~HandBackVoided /\ ~YearsRaced
    <3>1. (\A l \in DOMAIN charges : Allocated(l) <= charges[l].gross)'
      BY <1>1, <2>2, <2>4 DEF LinesKept
    <3>2. ASSUME NEW t \in Sessions PROVE Fits(req[t])'
      <4>1. PICK r : r = after[t]
        OBVIOUS
      <4>2. Fits(r)
        BY <1>1, <1>4, <2>4, <4>1 DEF LinesKept
      <4>3. Fits(r)'
        BY <4>2, TablesStay
      <4> QED
        BY <1>2, <4>1, <4>3 DEF Fits
    <3> QED
      BY <3>1, <3>2 DEF LinesKept
  <2> QED
    BY <2>3, <2>4
<1>10. (req = [t \in Sessions |-> req[t]])'
  BY <1>2, <1>3
<1> QED
  BY <1>5, <1>7, <1>8, <1>9, <1>10, InvIsNext

LEMMA NewRequest ==
    ASSUME NEW op \in Ops, NEW on \in Nat \cup Years, NEW amount \in Nat, NEW less \in Nat,
           NEW q, q = [op |-> op, on |-> on, amount |-> amount, less |-> less, shares |-> <<>>,
                       spread |-> FALSE, overtaken |-> {}]
    PROVE  /\ IsRequest(q) /\ Formed(q)
           /\ q.op = op /\ q.on = on /\ q.amount = amount
           /\ ~q.spread /\ q.overtaken = {}
<1>1. q.op = op /\ q.on = on /\ q.amount = amount /\ q.less = less
  OBVIOUS
<1>2. ~q.spread /\ q.spread = FALSE /\ q.overtaken = {} /\ q.shares = <<>>
  OBVIOUS
<1>3. Formed(q)
  BY <1>1, <1>2 DEF Formed
<1>4. IsRequest(q)
  <2>1. DOMAIN q.shares = {}
    BY <1>2
  <2> QED
    BY <1>1, <1>2, <2>1 DEF IsRequest
<1> QED
  BY <1>1, <1>2, <1>3, <1>4

LEMMA BeginKeeps ==
    ASSUME Inv, NEW s \in Sessions, NEW op \in Ops, NEW on \in Nat \cup Years,
           NEW amount \in Nat, NEW less \in Nat, BeginLess(s, op, on, amount, less),
           op = "take_payment" => on \in Years,
           op = "approve_void" => on \in Issued,
           op \in Decisions => /\ on \in DOMAIN refunds /\ amount = refunds[on].amount
                               /\ refunds[on].status \notin {"REJECTED", "EXECUTED"},
           op \in Settling => /\ on \in Nat \ {0}
                              /\ \A d \in DOMAIN deposits : deposits[d].line # on,
           op = "return_credit" => amount = -Balance,
           op \in Settling \cup {"take_payment", "return_credit", "request_refund", "grant_discount"}
               => amount > 0
    PROVE  Inv'
<1>1. PICK q : q = [op |-> op, on |-> on, amount |-> amount, less |-> less, shares |-> <<>>,
                    spread |-> FALSE, overtaken |-> {}]
  OBVIOUS
<1>2. /\ IsRequest(q) /\ Formed(q)
      /\ q.op = op /\ q.on = on /\ q.amount = amount
      /\ ~q.spread /\ q.overtaken = {}
  BY <1>1, NewRequest, ZenonT(20)
<1>3. /\ req' = [req EXCEPT ![s] = q]
      /\ UNCHANGED <<charges, receipts, rows, discounts, carried, returns, refunds, deposits, raced>>
  <2>1. [Idle EXCEPT !.op = op, !.on = on, !.amount = amount, !.less = less] = q
    <3>1. PICK base : base = Idle
      OBVIOUS
    <3>2. Formed(base) /\ base.shares = <<>> /\ base.spread = FALSE /\ base.overtaken = {}
      BY <3>1 DEF Formed, Idle
    <3>3. PICK e : e = [base EXCEPT !.op = op, !.on = on, !.amount = amount, !.less = less]
      OBVIOUS
    <3>4. e = [op |-> op, on |-> on, amount |-> amount, less |-> less, shares |-> base.shares,
               spread |-> base.spread, overtaken |-> base.overtaken]
      BY <3>2, <3>3 DEF Formed
    <3>5. e = q
      BY <1>1, <3>2, <3>4, Zenon
    <3> QED
      BY <3>1, <3>3, <3>5
  <2> QED
    BY <2>1 DEF BeginLess
<1>4. Issued \subseteq DOMAIN receipts
  BY DEF Issued
<1>5. Apt(q)
  BY <1>2, <1>4 DEF Apt
<1>6. ReceiptSeen(q) /\ ListSeen(q)
  BY <1>2 DEF ReceiptSeen, ListSeen
<1>7. RefundSeen(q)
  BY <1>2 DEF RefundSeen
<1>8. DepositSeen(q) /\ CreditSeen(q)
  BY <1>2 DEF DepositSeen, CreditSeen
<1>9. Fits(q)
  BY <1>2 DEF Fits
<1>10. Sound(q)
  BY <1>2, <1>5, <1>6, <1>7, <1>8 DEF Sound
<1> QED
  BY <1>2, <1>3, <1>9, <1>10, ReadKeeps

LEMMA TakeKeeps ==
    ASSUME Inv, NEW s \in Sessions, NEW shares, Take(s, shares), DOMAIN shares \subseteq Nat,
           \A i \in DOMAIN shares : shares[i] \in Int \ {0},
           \/ /\ Serving(s, "take_payment") /\ SequenceFree(req[s].on)
              /\ SumFunction(shares) = req[s].amount
              /\ DOMAIN shares \subseteq DOMAIN charges \cup {0}
              /\ \A l \in DOMAIN shares : shares[l] > 0
              /\ \A l \in DOMAIN shares \ {0} : Allocated(l) + shares[l] <= charges[l].gross
           \/ /\ req[s].op \in HandingBack
              /\ DOMAIN shares \subseteq DOMAIN rows
              /\ \A i \in DOMAIN shares : shares[i] < 0 /\ rows[i].receipt \in Issued
    PROVE  Inv'
<1>1. PICK r : r = req[s]
  OBVIOUS
<1>2. Sound(r) /\ req = [t \in Sessions |-> req[t]]
  BY <1>1, InvIs
<1>3. PICK q : q = [r EXCEPT !.shares = shares, !.spread = TRUE]
  OBVIOUS
<1>4. /\ req' = [req EXCEPT ![s] = q]
      /\ UNCHANGED <<charges, receipts, rows, discounts, carried, returns, refunds, deposits, raced>>
  <2>1. req' = [req EXCEPT ![s].shares = shares, ![s].spread = TRUE]
    BY DEF Take
  <2>2. req' = [req EXCEPT ![s] = q]
    BY <1>1, <1>2, <1>3, <2>1
  <2> QED
    BY <2>2 DEF Take
<1>5. q = [op |-> r.op, on |-> r.on, amount |-> r.amount, less |-> r.less, shares |-> shares,
           spread |-> TRUE, overtaken |-> r.overtaken]
  <2>1. Formed(r)
    BY <1>2 DEF Sound
  <2> QED
    BY <1>3, <2>1 DEF Formed
<1>6. /\ q.op = r.op /\ q.on = r.on /\ q.amount = r.amount /\ q.less = r.less
      /\ q.shares = shares /\ q.spread = TRUE /\ q.overtaken = r.overtaken
  BY <1>5
<1>7. Formed(q)
  BY <1>5, <1>6 DEF Formed
<1>8. IsRequest(q)
  BY <1>2, <1>6 DEF Sound, IsRequest
<1>9. q.op = "take_payment" \/ q.op \in HandingBack
  BY <1>1, <1>6 DEF Serving
<1>10. Apt(q)
  <2>1. Apt(r)
    BY <1>2 DEF Sound
  <2> QED
    BY <1>1, <1>6, <2>1 DEF Apt, Serving, HandingBack
<1>11. ReceiptSeen(q) /\ ListSeen(q)
  <2>1. ReceiptSeen(r)
    BY <1>2 DEF Sound
  <2>2. ReceiptSeen(q)
    BY <1>1, <1>6, <2>1 DEF ReceiptSeen, Serving, HandingBack
  <2> QED
    BY <1>9, <2>2 DEF ListSeen, HandingBack
<1>12. RefundSeen(q) /\ DepositSeen(q) /\ CreditSeen(q)
  <2>1. RefundSeen(r) /\ DepositSeen(r) /\ CreditSeen(r)
    BY <1>2 DEF Sound
  <2> QED
    BY <1>6, <2>1 DEF RefundSeen, DepositSeen, CreditSeen
<1>13. Fits(q)
  BY <1>1, <1>6 DEF Fits, Serving, HandingBack
<1>14. ASSUME q.op = "take_payment", NEW t \in Sessions, t # s, Allocating(t)
       PROVE  req[t].on # q.on
  <2>1. SequenceFree(req[s].on)
    BY <1>1, <1>6, <1>14 DEF HandingBack
  <2> QED
    BY <1>1, <1>6, <1>14, <2>1 DEF SequenceFree, Allocating, Serving
<1>15. Sound(q)
  BY <1>7, <1>8, <1>10, <1>11, <1>12 DEF Sound
<1> QED
  BY <1>4, <1>13, <1>14, <1>15, ReadKeeps

LEMMA SpreadApproveVoidKeeps ==
    ASSUME Inv, NEW s \in Sessions, SpreadApproveVoid(s)
    PROVE  Inv'
<1>1. PICK r : r = req[s]
  OBVIOUS
<1>2. /\ Sound(r) /\ req = [t \in Sessions |-> req[t]] /\ TablesTyped
      /\ r.op = "approve_void"
  BY <1>1, InvIs DEF Ledger, SpreadApproveVoid, Serving
<1>3. PICK shares, left : /\ shares = [i \in Mirrored(r.on) |-> -rows[i].amount]
                          /\ left = r.overtaken \ HandingBack
  OBVIOUS
<1>4. PICK q : q = [op |-> r.op, on |-> r.on, amount |-> r.amount, less |-> r.less,
                    shares |-> shares, spread |-> TRUE, overtaken |-> left]
  OBVIOUS
<1>5. /\ q.op = r.op /\ q.on = r.on /\ q.amount = r.amount /\ q.less = r.less
      /\ q.shares = shares /\ q.spread = TRUE /\ q.overtaken = left
  BY <1>4
<1>6. /\ req' = [req EXCEPT ![s] = q]
      /\ UNCHANGED <<charges, receipts, rows, discounts, carried, returns, refunds, deposits, raced>>
  <2>1. req' = [req EXCEPT ![s].shares = shares, ![s].spread = TRUE, ![s].overtaken = left]
    BY <1>1, <1>2, <1>3 DEF SpreadApproveVoid
  <2>2. q = [r EXCEPT !.shares = shares, !.spread = TRUE, !.overtaken = left]
    <3>1. Formed(r)
      BY <1>2 DEF Sound
    <3>2. PICK e : e = [r EXCEPT !.shares = shares, !.spread = TRUE, !.overtaken = left]
      OBVIOUS
    <3>3. e = [op |-> r.op, on |-> r.on, amount |-> r.amount, less |-> r.less,
               shares |-> shares, spread |-> TRUE, overtaken |-> left]
      BY <3>1, <3>2 DEF Formed
    <3> QED
      BY <1>4, <3>2, <3>3, Zenon
  <2>3. req' = [req EXCEPT ![s] = q]
    BY <1>1, <1>2, <2>1, <2>2
  <2> QED
    BY <2>3 DEF SpreadApproveVoid
<1>7. Formed(q)
  BY <1>4, <1>5 DEF Formed
<1>8. /\ DOMAIN shares = Mirrored(r.on)
      /\ \A i \in DOMAIN shares : /\ i \in DOMAIN rows /\ rows[i].receipt = r.on
                                   /\ shares[i] = -rows[i].amount
  BY <1>3 DEF Mirrored
<1>9. \A i \in DOMAIN shares : i \in Nat /\ shares[i] \in Int \ {0}
  <2>1. DOMAIN rows \subseteq Nat
    BY <1>2, TablesAre
  <2>2. ASSUME NEW i \in DOMAIN shares PROVE shares[i] \in Int \ {0}
    <3>1. rows[i].amount \in Int /\ rows[i].amount # 0
      BY <1>2, <1>8, RowsAre
    <3> QED
      BY <1>8, <3>1
  <2> QED
    BY <1>8, <2>1, <2>2
<1>10. IsRequest(q)
  <2>1. IsRequest(r)
    BY <1>2 DEF Sound
  <2> QED
    BY <1>3, <1>5, <1>9, <2>1 DEF IsRequest
<1>11. Apt(q)
  <2>1. Apt(r)
    BY <1>2 DEF Sound
  <2> QED
    BY <1>2, <1>5, <1>8, <2>1 DEF Apt, HandingBack, Decisions, Settling
<1>12. ReceiptSeen(q)
  <2>1. ReceiptSeen(r)
    BY <1>2 DEF Sound
  <2> QED
    BY <1>2, <1>3, <1>5, <2>1 DEF ReceiptSeen, HandingBack
<1>13. ListSeen(q)
  BY <1>5, <1>8 DEF ListSeen
<1>14. RefundSeen(q) /\ DepositSeen(q) /\ CreditSeen(q) /\ Fits(q)
  BY <1>2, <1>5 DEF RefundSeen, DepositSeen, CreditSeen, Fits, Decisions, Settling
<1>15. Sound(q)
  BY <1>7, <1>10, <1>11, <1>12, <1>13, <1>14 DEF Sound
<1> QED
  BY <1>2, <1>5, <1>6, <1>14, <1>15, ReadKeeps

LEMMA RollbackKeeps ==
    ASSUME Inv, NEW s \in Sessions, Rollback(s)
    PROVE  Inv'
<1>1. PICK q : q = Idle
  OBVIOUS
<1>2. /\ q.op = "idle" /\ q.on = 0 /\ q.amount = 0 /\ q.less = 0 /\ q.shares = <<>>
      /\ q.spread = FALSE /\ q.overtaken = {}
  BY <1>1 DEF Idle
<1>3. Formed(q)
  BY <1>1, <1>2 DEF Idle, Formed
<1>4. IsRequest(q)
  <2>1. DOMAIN q.shares = {}
    BY <1>2
  <2>2. q.op \in Ops \cup {"idle"} /\ q.on \in Nat \cup Years /\ {q.amount, q.less} \subseteq Nat
    BY <1>2
  <2>3. q.spread \in BOOLEAN /\ q.overtaken \in SUBSET Ops
    BY <1>2
  <2> QED
    BY <2>1, <2>2, <2>3 DEF IsRequest
<1>5. Sound(q)
  BY <1>2, <1>3, <1>4 DEF Sound, Apt, ReceiptSeen, ListSeen, RefundSeen, DepositSeen, CreditSeen,
                          HandingBack, Decisions, Settling
<1>6. Fits(q)
  BY <1>2 DEF Fits
<1> QED
  BY <1>1, <1>2, <1>5, <1>6, ReadKeeps DEF Rollback

(***************************************************************************)
(* Amounts are numbers, and a portion is no more than its item.            *)
(***************************************************************************)
LEMMA PortionIs ==
    ASSUME NEW amount \in Int, NEW sizes, NEW x, sizes[x] \in Int, NEW before, IsFiniteSet(before),
           \A y \in before : sizes[y] \in Int
    PROVE  /\ Portion(amount, sizes, before, x) \in Nat
           /\ Portion(amount, sizes, before, x) > 0
                  => Portion(amount, sizes, before, x) <= sizes[x]
<1>1. PICK left : left = amount - SumFunctionOnSet(sizes, before)
  OBVIOUS
<1>2. left \in Int
  BY <1>1, SumTyped
<1>3. PICK m : m = Min({sizes[x], left})
  OBVIOUS
<1>4. m \in Int /\ m <= sizes[x]
  BY <1>2, <1>3, TheLess
<1>5. Portion(amount, sizes, before, x) = Max({0, m})
  BY <1>1, <1>3 DEF Portion
<1> QED
  BY <1>4, <1>5, AtLeastZero

LEMMA AmountsTyped ==
    ASSUME TablesTyped
    PROVE  /\ TotalPaid \in Int /\ \A l : Allocated(l) \in Int
           /\ TotalDue \in Int /\ Total(discounts) \in Int /\ Balance \in Int
<1>1. TotalPaid \in Int /\ \A l : Allocated(l) \in Int
  <2>1. TotalPaid \in Int
    <3>1. TotalPaid = Money(Issued, Nat, Whys)
      BY SumsAreMoney
    <3> QED
      BY <3>1, MoneyTyped
  <2>2. ASSUME NEW l PROVE Allocated(l) \in Int
    <3>1. Allocated(l) = Money(Issued, {l}, Whys)
      BY SumsAreMoney
    <3> QED
      BY <3>1, MoneyTyped
  <2> QED
    BY <2>1, <2>2
<1>2. TotalDue \in Int
  <2>1. PICK f : f = [l \in DOMAIN charges |-> charges[l].gross]
    OBVIOUS
  <2>2. DOMAIN f = DOMAIN charges /\ \A l \in DOMAIN f : f[l] \in Int
    BY <2>1, RowsAre
  <2>3. IsFiniteSet(DOMAIN f)
    <3>1. DOMAIN f = 1 .. Len(charges) /\ Len(charges) \in Nat
      BY <2>2, TablesAre
    <3> QED
      BY <3>1, FS_Interval
  <2> QED
    BY <2>1, <2>2, <2>3, SumTyped, SumIsOnSet DEF TotalDue
<1>3. Total(discounts) \in Int
  <2>1. PICK f : f = discounts
    OBVIOUS
  <2>2. f \in Seq(Nat \ {0})
    BY <2>1 DEF TablesTyped
  <2>3. \A i \in DOMAIN f : f[i] \in Int
    BY <2>2, LenProperties
  <2>4. IsFiniteSet(DOMAIN f)
    <3>1. DOMAIN f = 1 .. Len(f) /\ Len(f) \in Nat
      BY <2>2, LenProperties
    <3> QED
      BY <3>1, FS_Interval
  <2> QED
    BY <2>1, <2>3, <2>4, SumTyped, SumIsOnSet DEF Total
<1>4. Balance \in Int
  <2>1. PICK a, b, c, d : a = TotalDue /\ b = Total(discounts) /\ c = TotalPaid /\ d = carried
    OBVIOUS
  <2>2. Balance = a - b - c - d
    BY <2>1 DEF Balance
  <2>3. d \in Int
    BY <2>1 DEF TablesTyped
  <2> QED
    BY <1>1, <1>2, <1>3, <2>1, <2>2, <2>3
<1> QED
  BY <1>1, <1>2, <1>3, <1>4

LEMMA NothingSettled ==
    ASSUME TablesTyped, DepositsTell, NEW l, SettledAmount(l) = 0
    PROVE  \A d \in DOMAIN deposits : deposits[d].line # l
<1> SUFFICES ASSUME NEW d \in DOMAIN deposits, deposits[d].line = l PROVE FALSE
  OBVIOUS
<1>1. PICK S : S = {e \in DOMAIN deposits : deposits[e].line = l}
  OBVIOUS
<1>2. PICK f : f = [e \in DOMAIN deposits |-> deposits[e].amount + deposits[e].deduction]
  OBVIOUS
<1>3. \A e \in DOMAIN deposits : deposits[e] \in Settlement
  BY TablesAre, LenProperties DEF TablesTyped
<1>4. \A e \in S : f[e] \in Nat
  BY <1>1, <1>2, <1>3 DEF Settlement
<1>5. d \in S /\ f[d] > 0
  BY <1>1, <1>2, <1>3 DEF Settlement, DepositsTell
<1>6. IsFiniteSet(S)
  <2>1. DOMAIN deposits = 1 .. Len(deposits) /\ Len(deposits) \in Nat
    BY TablesAre
  <2>2. IsFiniteSet(DOMAIN deposits)
    BY <2>1, FS_Interval
  <2> QED
    BY <1>1, <2>2, FS_Subset
<1>7. SumFunctionOnSet(f, S) = 0
  BY <1>1, <1>2 DEF SettledAmount
<1>8. SumFunctionOnSet(f, S) >= f[d]
  BY <1>4, <1>5, <1>6, SumAbove
<1> QED
  BY <1>4, <1>5, <1>7, <1>8

LEMMA InvTables == Inv => TablesTyped /\ RowsTell /\ DepositsTell /\ ReceiptsWhole
  BY DEF Inv

LEMMA ReadPaymentKeeps ==
    ASSUME Inv, NEW s \in Sessions, NEW y \in Years, NEW a \in Payments, ReadPayment(s, y, a)
    PROVE  Inv'
<1>1. a \in Nat \ {0}
  BY ConstantsAssumption
<1>2. BeginLess(s, "take_payment", y, a, 0) /\ "take_payment" \in Ops
  BY DEF ReadPayment, Begin, Ops
<1>3. PICK op : op = "take_payment"
  OBVIOUS
<1>4. /\ op \notin Decisions /\ op \notin Settling
      /\ op # "return_credit" /\ op # "approve_void"
  BY <1>3 DEF Decisions, Settling
<1>5. op \in Ops /\ BeginLess(s, op, y, a, 0) /\ y \in Nat \cup Years /\ a > 0 /\ a \in Nat /\ 0 \in Nat
  BY <1>1, <1>2, <1>3
<1> QED
  BY <1>4, <1>5, BeginKeeps

LEMMA ReadApproveVoidKeeps ==
    ASSUME Inv, NEW s \in Sessions, NEW r, ReadApproveVoid(s, r)
    PROVE  Inv'
<1>1. BeginLess(s, "approve_void", r, 0, 0) /\ "approve_void" \in Ops /\ r \in Issued
  BY DEF ReadApproveVoid, Begin, Ops
<1>2. r \in Nat
  <2>1. r \in DOMAIN receipts
    BY <1>1 DEF Issued
  <2> QED
    BY <2>1, InvTables, TablesAre
<1>3. PICK op : op = "approve_void"
  OBVIOUS
<1>4. /\ op \notin Decisions /\ op \notin Settling /\ op # "return_credit"
      /\ op \notin Settling \cup {"take_payment", "return_credit", "request_refund", "grant_discount"}
      /\ op # "take_payment"
  BY <1>3 DEF Decisions, Settling
<1> QED
  BY <1>1, <1>2, <1>3, <1>4, BeginKeeps

LEMMA ReadReturnCreditKeeps ==
    ASSUME Inv, NEW s \in Sessions, ReadReturnCredit(s)
    PROVE  Inv'
<1>1. PICK b, a : b = Balance /\ a = OutstandingCredit
  OBVIOUS
<1>2. b \in Int
  BY <1>1, InvTables, AmountsTyped
<1>3. a = Max({0, -b}) /\ a > 0
  BY <1>1 DEF ReadReturnCredit, CreditableRow, OutstandingCredit
<1>4. a \in Nat /\ a = -b
  BY <1>2, <1>3, AtLeastZero
<1>5. BeginLess(s, "return_credit", 0, a, 0) /\ "return_credit" \in Ops
  BY <1>1 DEF ReadReturnCredit, Begin, Ops
<1> QED
  BY <1>1, <1>3, <1>4, <1>5, BeginKeeps DEF Decisions, Settling

LEMMA ReadRequestRefundKeeps ==
    ASSUME Inv, NEW s \in Sessions, RefundableRow, NEW a \in Refunds \cup {FullAmount},
           ReadRequestRefund(s, a)
    PROVE  Inv'
<1>1. PICK p, m : p = TotalPaid /\ m = Refundable
  OBVIOUS
<1>2. p \in Int
  BY <1>1, InvTables, AmountsTyped
<1>3. m = Max({0, p}) /\ m > 0 /\ (a \in Refunds \/ a = m)
  BY <1>1 DEF RefundableRow, Refundable, FullAmount
<1>4. a \in Nat /\ a > 0
  <2>1. m \in Nat
    BY <1>2, <1>3, AtLeastZero
  <2>2. a \in Refunds => a \in Nat \ {0}
    BY ConstantsAssumption
  <2> QED
    BY <1>3, <2>1, <2>2
<1>5. BeginLess(s, "request_refund", 0, a, 0) /\ "request_refund" \in Ops
  BY DEF ReadRequestRefund, Begin, Ops
<1> QED
  BY <1>4, <1>5, BeginKeeps DEF Decisions, Settling

LEMMA RefundsAre ==
    TablesTyped => \A f \in DOMAIN refunds :
                       /\ f \in Nat \ {0} /\ refunds[f] \in Refund
                       /\ refunds[f].amount \in Nat \ {0}
                       /\ refunds[f].status \in {"REQUESTED", "APPROVED", "REJECTED", "EXECUTED"}
                       /\ refunds[f] = [amount |-> refunds[f].amount, status |-> refunds[f].status]
<1> SUFFICES ASSUME TablesTyped, NEW f \in DOMAIN refunds
             PROVE  /\ f \in Nat \ {0} /\ refunds[f] \in Refund
                    /\ refunds[f].amount \in Nat \ {0}
                    /\ refunds[f].status \in {"REQUESTED", "APPROVED", "REJECTED", "EXECUTED"}
                    /\ refunds[f] = [amount |-> refunds[f].amount, status |-> refunds[f].status]
  OBVIOUS
<1>1. f \in Nat \ {0} /\ refunds[f] \in Refund
  BY TablesAre, LenProperties DEF TablesTyped
<1> QED
  BY <1>1 DEF Refund

LEMMA ReadDecideRefundKeeps ==
    ASSUME Inv, NEW s \in Sessions, NEW f \in DOMAIN refunds,
           NEW op \in {"approve_refund", "reject_refund"}, ReadDecideRefund(s, op, f)
    PROVE  Inv'
<1>1. f \in Nat /\ refunds[f].amount \in Nat
  BY InvTables, RefundsAre
<1>2. BeginLess(s, op, f, refunds[f].amount, 0) /\ op \in Ops /\ refunds[f].status = "REQUESTED"
  BY DEF ReadDecideRefund, Begin, Ops, Decisions
<1> QED
  BY <1>1, <1>2, BeginKeeps DEF Decisions, Settling

LEMMA ReadExecuteRefundKeeps ==
    ASSUME Inv, NEW s \in Sessions, NEW f \in DOMAIN refunds, ReadExecuteRefund(s, f)
    PROVE  Inv'
<1>1. f \in Nat /\ refunds[f].amount \in Nat
  BY InvTables, RefundsAre
<1>2. /\ BeginLess(s, "execute_refund", f, refunds[f].amount, 0) /\ "execute_refund" \in Ops
      /\ refunds[f].status = "APPROVED"
  BY DEF ReadExecuteRefund, Executable, Begin, Ops, Decisions
<1> QED
  BY <1>1, <1>2, BeginKeeps DEF Decisions, Settling

LEMMA ReadReturnDepositKeeps ==
    ASSUME Inv, NEW s \in Sessions, NEW l \in DepositLines, NEW d \in Deductions,
           ReadReturnDeposit(s, l, d)
    PROVE  Inv'
<1>1. l \in Nat \ {0}
  BY InvTables, TablesAre DEF DepositLines
<1>2. PICK a, b : a = Allocated(l) /\ b = a - d
  OBVIOUS
<1>3. a \in Int /\ d \in Nat
  BY <1>2, InvTables, AmountsTyped, ConstantsAssumption
<1>4. b \in Nat /\ b > 0
  BY <1>2, <1>3 DEF ReadReturnDeposit
<1>5. \A e \in DOMAIN deposits : deposits[e].line # l
  BY InvTables, NothingSettled DEF ReadReturnDeposit, Settleable
<1>6. BeginLess(s, "return_deposit", l, b, d) /\ "return_deposit" \in Ops
  BY <1>2 DEF ReadReturnDeposit, Ops, Settling
<1> QED
  BY <1>1, <1>3, <1>4, <1>5, <1>6, BeginKeeps DEF Decisions, Settling

LEMMA ReadForfeitDepositKeeps ==
    ASSUME Inv, NEW s \in Sessions, NEW l \in DepositLines, ReadForfeitDeposit(s, l)
    PROVE  Inv'
<1>1. l \in Nat \ {0}
  BY InvTables, TablesAre DEF DepositLines
<1>2. PICK a : a = Allocated(l)
  OBVIOUS
<1>3. a \in Int
  BY <1>2, InvTables, AmountsTyped
<1>4. a \in Nat /\ a > 0
  BY <1>2, <1>3 DEF ReadForfeitDeposit, Settleable
<1>5. \A e \in DOMAIN deposits : deposits[e].line # l
  BY InvTables, NothingSettled DEF ReadForfeitDeposit, Settleable
<1>6. BeginLess(s, "forfeit_deposit", l, a, 0) /\ "forfeit_deposit" \in Ops
  BY <1>2 DEF ReadForfeitDeposit, Begin, Ops, Settling
<1> QED
  BY <1>1, <1>4, <1>5, <1>6, BeginKeeps DEF Decisions, Settling

LEMMA ReadGrantDiscountKeeps ==
    ASSUME Inv, NEW s \in Sessions, NEW a \in Discounts, ReadGrantDiscount(s, a)
    PROVE  Inv'
<1>1. a \in Nat \ {0}
  BY ConstantsAssumption
<1>2. BeginLess(s, "grant_discount", 0, a, 0) /\ "grant_discount" \in Ops
  BY DEF ReadGrantDiscount, Begin, Ops
<1> QED
  BY <1>1, <1>2, BeginKeeps DEF Decisions, Settling

LEMMA SharesOwed ==
    ASSUME TablesTyped, NEW a \in Int, NEW l \in Owed \cup {0}
    PROVE  /\ PaidTo(l, a) \in Nat
           /\ l # 0 /\ PaidTo(l, a) > 0 => PaidTo(l, a) <= charges[l].gross - Allocated(l)
<1>1. PICK sizes : sizes = [k \in Owed |-> Outstanding(k)]
  OBVIOUS
<1>2. /\ Owed \subseteq DOMAIN charges /\ 0 \notin Owed /\ IsFiniteSet(Owed)
  <2>1. DOMAIN charges = 1 .. Len(charges) /\ Len(charges) \in Nat
    BY TablesAre
  <2>2. IsFiniteSet(DOMAIN charges)
    BY <2>1, FS_Interval
  <2>3. Owed \in SUBSET DOMAIN charges
    BY DEF Owed
  <2> QED
    BY <2>1, <2>2, <2>3, FS_Subset
<1>3. ASSUME NEW k \in Owed PROVE sizes[k] \in Int /\ sizes[k] = charges[k].gross - Allocated(k)
  <2>1. PICK g, m : g = charges[k].gross /\ m = Allocated(k)
    OBVIOUS
  <2>2. g \in Int /\ m \in Int
    BY <1>2, <2>1, RowsAre, AmountsTyped
  <2> QED
    BY <1>1, <2>1, <2>2 DEF Outstanding
<1>4. CASE l = 0
  <2>1. PICK t : t = a - SumFunction(sizes)
    OBVIOUS
  <2>2. t \in Int
    <3>1. DOMAIN sizes = Owed
      BY <1>1
    <3>2. SumFunction(sizes) \in Int
      BY <1>2, <1>3, <3>1, SumTyped, SumIsOnSet
    <3> QED
      BY <2>1, <3>2
  <2>3. PaidTo(l, a) = Max({0, t})
    BY <1>1, <1>4, <2>1 DEF PaidTo, Remainder
  <2> QED
    BY <1>4, <2>2, <2>3, AtLeastZero
<1>5. CASE l # 0
  <2>1. PICK before : before = {k \in Owed : Before(k, l)}
    OBVIOUS
  <2>2. PaidTo(l, a) = Portion(a, sizes, before, l)
    BY <1>1, <1>5, <2>1 DEF PaidTo
  <2>3. l \in Owed /\ before \in SUBSET Owed
    BY <1>5, <2>1
  <2>4. IsFiniteSet(before) /\ \A k \in before : sizes[k] \in Int
    BY <1>2, <1>3, <2>3, FS_Subset
  <2>5. /\ Portion(a, sizes, before, l) \in Nat
        /\ Portion(a, sizes, before, l) > 0 => Portion(a, sizes, before, l) <= sizes[l]
    BY <1>3, <2>3, <2>4, PortionIs
  <2> QED
    BY <1>3, <2>2, <2>3, <2>5
<1> QED
  BY <1>4, <1>5

LEMMA SpreadPaymentKeeps ==
    ASSUME Inv, NEW s \in Sessions, SpreadPayment(s)
    PROVE  Inv'
<1>1. PICK a : a = req[s].amount
  OBVIOUS
<1>2. PICK shares : shares = Allocate(a)
  OBVIOUS
<1>3. a \in Nat
  BY <1>1, InvIs DEF Sound, IsRequest
<1>4. /\ Serving(s, "take_payment") /\ SequenceFree(req[s].on)
      /\ SumFunction(shares) = req[s].amount /\ Take(s, shares)
  BY <1>1, <1>2 DEF SpreadPayment
<1>5. shares = [l \in {k \in Owed \cup {0} : PaidTo(k, a) > 0} |-> PaidTo(l, a)]
  BY <1>2 DEF Allocate
<1>6. Owed \subseteq DOMAIN charges /\ DOMAIN charges \subseteq Nat
  BY InvTables, TablesAre DEF Owed
<1>7. /\ DOMAIN shares \subseteq DOMAIN charges \cup {0}
      /\ DOMAIN shares \subseteq Owed \cup {0}
      /\ \A l \in DOMAIN shares : shares[l] = PaidTo(l, a) /\ shares[l] > 0
  BY <1>5, <1>6
<1>8. \A l \in DOMAIN shares : shares[l] \in Nat
  BY <1>3, <1>7, InvTables, SharesOwed
<1>9. ASSUME NEW l \in DOMAIN shares \ {0}
      PROVE  Allocated(l) + shares[l] <= charges[l].gross
  <2>1. l \in Owed \cup {0} /\ l \in DOMAIN charges
    BY <1>6, <1>7
  <2>2. PICK g, m, n : g = charges[l].gross /\ m = Allocated(l) /\ n = shares[l]
    OBVIOUS
  <2>3. n <= g - m
    BY <1>3, <1>7, <2>1, <2>2, InvTables, SharesOwed
  <2>4. g \in Int /\ m \in Int /\ n \in Int
    BY <1>8, <2>1, <2>2, InvTables, RowsAre, AmountsTyped
  <2> QED
    BY <2>2, <2>3, <2>4
<1>10. DOMAIN shares \subseteq Nat /\ \A l \in DOMAIN shares : shares[l] \in Int \ {0}
  BY <1>6, <1>7, <1>8
<1> QED
  BY <1>4, <1>7, <1>9, <1>10, TakeKeeps

(***************************************************************************)
(* What is handed back on rows that received it, whatever their order.     *)
(***************************************************************************)
HandsBack(shares, amount, items, first) ==
    LET sizes == [i \in items |-> rows[i].amount]
    IN  /\ \A i \in items : first[i] \in SUBSET items
        /\ shares = [i \in {j \in items : Portion(amount, sizes, first[j], j) > 0} |->
                        -Portion(amount, sizes, first[i], i)]

LEMMA HandedBack ==
    ASSUME Inv, NEW s \in Sessions, req[s].op \in HandingBack, NEW items \in SUBSET Received,
           NEW first, NEW shares, HandsBack(shares, req[s].amount, items, first),
           Take(s, shares)
    PROVE  Inv'
<1>0. PICK sizes : sizes = [i \in items |-> rows[i].amount]
  OBVIOUS
<1>1. PICK a : a = req[s].amount
  OBVIOUS
<1>2. a \in Nat
  BY <1>1, InvIs DEF Sound, IsRequest
<1>3. items \in SUBSET DOMAIN rows /\ \A i \in items : rows[i].receipt \in Issued
  BY DEF Received, LiveRows
<1>4. IsFiniteSet(items) /\ \A i \in items : sizes[i] \in Int
  BY <1>0, <1>3, InvTables, RowsFinite, RowsAre
<1>5. PICK back : back = [i \in items |-> Portion(a, sizes, first[i], i)]
  OBVIOUS
<1>6. ASSUME NEW i \in items PROVE back[i] \in Nat
  <2>1. IsFiniteSet(first[i]) /\ \A y \in first[i] : sizes[y] \in Int
    BY <1>0, <1>4, FS_Subset DEF HandsBack
  <2>2. Portion(a, sizes, first[i], i) \in Nat
    BY <1>2, <1>4, <2>1, PortionIs
  <2> QED
    BY <1>5, <2>2
<1>7. /\ DOMAIN shares \subseteq items
      /\ \A i \in DOMAIN shares : shares[i] = -back[i] /\ back[i] > 0
  BY <1>0, <1>1, <1>5 DEF HandsBack
<1>8. \A i \in DOMAIN shares : shares[i] \in Int \ {0} /\ shares[i] < 0
  BY <1>6, <1>7
<1>9. DOMAIN rows \subseteq Nat
  BY InvTables, TablesAre
<1>10. /\ DOMAIN shares \subseteq Nat /\ DOMAIN shares \subseteq DOMAIN rows
       /\ \A i \in DOMAIN shares : shares[i] < 0 /\ rows[i].receipt \in Issued
       /\ \A i \in DOMAIN shares : shares[i] \in Int \ {0}
  BY <1>3, <1>7, <1>8, <1>9
<1> QED
  BY <1>10, TakeKeeps

LEMMA SpreadReturnCreditKeeps ==
    ASSUME Inv, NEW s \in Sessions, SpreadReturnCredit(s)
    PROVE  Inv'
<1>1. PICK items, sizes, first :
          /\ items = CreditRows
          /\ sizes = [i \in items |-> rows[i].amount]
          /\ first = [i \in items |-> {j \in items : Earlier(j, i)}]
  OBVIOUS
<1>2. PICK shares : shares = HandBack(req[s].amount, CreditRows, Earlier)
  OBVIOUS
<1>3. shares = [i \in {j \in items : Portion(req[s].amount, sizes, first[j], j) > 0} |->
                   -Portion(req[s].amount, sizes, first[i], i)]
  <2>1. \A i \in items : first[i] = {j \in items : Earlier(j, i)}
    BY <1>1
  <2> QED
    BY <1>1, <1>2, <2>1 DEF HandBack
<1>4. items \in SUBSET Received /\ \A i \in items : first[i] \in SUBSET items
  BY <1>1 DEF CreditRows
<1>5. req[s].op \in HandingBack /\ Take(s, shares)
  BY <1>2 DEF SpreadReturnCredit, Serving, HandingBack
<1>6. HandsBack(shares, req[s].amount, items, first)
  BY <1>1, <1>3, <1>4 DEF HandsBack
<1> QED
  BY <1>4, <1>5, <1>6, HandedBack

LEMMA SpreadExecuteRefundKeeps ==
    ASSUME Inv, NEW s \in Sessions, SpreadExecuteRefund(s)
    PROVE  Inv'
<1>1. PICK items, sizes, first :
          /\ items = Received
          /\ sizes = [i \in items |-> rows[i].amount]
          /\ first = [i \in items |-> {j \in items : ReversalOrder(j, i)}]
  OBVIOUS
<1>2. PICK shares : shares = HandBack(req[s].amount, Received, ReversalOrder)
  OBVIOUS
<1>3. shares = [i \in {j \in items : Portion(req[s].amount, sizes, first[j], j) > 0} |->
                   -Portion(req[s].amount, sizes, first[i], i)]
  <2>1. \A i \in items : first[i] = {j \in items : ReversalOrder(j, i)}
    BY <1>1
  <2> QED
    BY <1>1, <1>2, <2>1 DEF HandBack
<1>4. items \in SUBSET Received /\ \A i \in items : first[i] \in SUBSET items
  BY <1>1
<1>5. req[s].op \in HandingBack /\ Take(s, shares)
  BY <1>2 DEF SpreadExecuteRefund, Serving, HandingBack
<1>6. HandsBack(shares, req[s].amount, items, first)
  BY <1>1, <1>3, <1>4 DEF HandsBack
<1> QED
  BY <1>4, <1>5, <1>6, HandedBack

-----------------------------------------------------------------------------
(* Requests when another commits. *)

Resembles(q, r) ==
    /\ q.op = r.op /\ q.on = r.on /\ q.amount = r.amount /\ q.less = r.less
    /\ q.shares = r.shares /\ q.spread = r.spread

LEMMA Overtaken ==
    ASSUME NEW op \in Ops, NEW t \in Sessions, NEW r, r = req[t], IsRequest(r), Formed(r),
           NEW q, q = Overtakes(op, t)
    PROVE  /\ IsRequest(q) /\ Formed(q) /\ Resembles(q, r)
           /\ q.overtaken = r.overtaken \cup (IF <<r.op, op>> \in Watched THEN {op} ELSE {})
<1>1. CASE <<r.op, op>> \in Watched
  <2>1. q = [r EXCEPT !.overtaken = r.overtaken \cup {op}]
    BY <1>1 DEF Overtakes
  <2>2. q = [op |-> r.op, on |-> r.on, amount |-> r.amount, less |-> r.less, shares |-> r.shares,
             spread |-> r.spread, overtaken |-> r.overtaken \cup {op}]
    BY <2>1 DEF Formed
  <2>3. Resembles(q, r) /\ q.overtaken = r.overtaken \cup {op}
    BY <2>2 DEF Resembles
  <2>4. Formed(q)
    BY <2>2, <2>3 DEF Formed, Resembles
  <2>5. IsRequest(q)
    BY <2>3 DEF IsRequest, Resembles
  <2> QED
    BY <1>1, <2>3, <2>4, <2>5
<1>2. CASE <<r.op, op>> \notin Watched
  <2>1. q = r
    BY <1>2 DEF Overtakes
  <2> QED
    BY <1>2, <2>1 DEF Resembles
<1> QED
  BY <1>1, <1>2

(***************************************************************************)
(* What a commit of an operation leaves to what others have read.          *)
(***************************************************************************)
Grows(op) ==
    /\ DOMAIN charges \subseteq DOMAIN charges'
    /\ DOMAIN receipts \subseteq DOMAIN receipts'
    /\ op = "approve_void" \/ Issued \subseteq Issued'
    /\ DOMAIN rows \subseteq DOMAIN rows'
    /\ \A i \in DOMAIN rows : rows'[i].receipt = rows[i].receipt /\ rows'[i].amount = rows[i].amount
    /\ \/ op \in {"approve_void"} \cup HandingBack
       \/ \A r \in DOMAIN receipts : Mirrored(r)' = Mirrored(r)
    /\ DOMAIN refunds \subseteq DOMAIN refunds'
    /\ \A f \in DOMAIN refunds :
          /\ refunds'[f].amount = refunds[f].amount
          /\ \/ refunds'[f].status = refunds[f].status
             \/ op \in Decisions /\ (op # "execute_refund" => refunds'[f].status # "EXECUTED")
    /\ op \in Settling \/ deposits' = deposits

LEMMA SoundAfter ==
    ASSUME NEW op \in Ops, Grows(op), NEW r, Sound(r), NEW q, IsRequest(q), Formed(q),
           Resembles(q, r),
           q.overtaken = r.overtaken \cup (IF <<r.op, op>> \in Watched THEN {op} ELSE {})
    PROVE  Sound(q)'
<1>1. IsRequest(q)' /\ Formed(q)'
  BY DEF IsRequest, Formed
<1>2. Apt(q)'
  <2>1. Apt(r)
    BY DEF Sound
  <2> QED
    BY <2>1 DEF Apt, Grows, Resembles
<1>3. ReceiptSeen(q)'
  <2>1. ReceiptSeen(r) /\ Apt(r)
    BY DEF Sound
  <2> SUFFICES ASSUME "approve_void" \notin q.overtaken
               PROVE  /\ q.op = "approve_void" => q.on \in Issued'
                      /\ q.op \in HandingBack /\ q.spread =>
                             \A i \in DOMAIN q.shares : rows'[i].receipt \in Issued'
    BY DEF ReceiptSeen
  <2>2. "approve_void" \notin r.overtaken
    OBVIOUS
  <2>3. CASE op = "approve_void"
    <3>1. \A x \in {"approve_void"} \cup HandingBack : <<x, op>> \in Watched
      BY <2>3 DEF Watched, VoidRaces
    <3>2. r.op \notin {"approve_void"} \cup HandingBack
      BY <2>3, <3>1
    <3> QED
      BY <3>2 DEF Resembles
  <2>4. CASE op # "approve_void"
    <3>1. Issued \subseteq Issued'
      BY <2>4 DEF Grows
    <3>2. /\ q.op = "approve_void" => q.on \in Issued
          /\ q.op \in HandingBack /\ q.spread => /\ DOMAIN q.shares \subseteq DOMAIN rows
                                                 /\ \A i \in DOMAIN q.shares : rows[i].receipt \in Issued
      BY <2>1, <2>2 DEF ReceiptSeen, Apt, Resembles
    <3>3. \A i \in DOMAIN rows : rows'[i].receipt = rows[i].receipt
      BY DEF Grows
    <3> QED
      BY <3>1, <3>2, <3>3
  <2> QED
    BY <2>3, <2>4
<1>4. RefundSeen(q)'
  <2>1. RefundSeen(r) /\ Apt(r)
    BY DEF Sound
  <2> SUFFICES ASSUME q.op \in Decisions
               PROVE  /\ "execute_refund" \notin q.overtaken => refunds'[q.on].status # "EXECUTED"
                      /\ q.overtaken \cap Decisions = {} =>
                             refunds'[q.on].status \notin {"REJECTED", "EXECUTED"}
    BY DEF RefundSeen
  <2>2. q.on \in DOMAIN refunds /\ r.op \in Decisions /\ r.on = q.on
    BY <2>1 DEF Apt, Resembles
  <2>3. op \in Decisions => op \in q.overtaken
    BY <2>2 DEF Watched
  <2>4. \/ refunds'[q.on].status = refunds[q.on].status
        \/ op \in Decisions /\ (op # "execute_refund" => refunds'[q.on].status # "EXECUTED")
    BY <2>2 DEF Grows
  <2>5. /\ "execute_refund" \notin r.overtaken => refunds[q.on].status # "EXECUTED"
        /\ r.overtaken \cap Decisions = {} => refunds[q.on].status \notin {"REJECTED", "EXECUTED"}
    BY <2>1, <2>2 DEF RefundSeen
  <2> QED
    BY <2>3, <2>4, <2>5
<1>5. DepositSeen(q)'
  <2>1. DepositSeen(r)
    BY DEF Sound
  <2>2. r.op \in Settling /\ op \in Settling => op \in q.overtaken
    BY DEF Watched
  <2> QED
    BY <2>1, <2>2 DEF DepositSeen, Grows, Resembles
<1>6. CreditSeen(q)'
  <2>1. r.op = "return_credit" => op \in q.overtaken
    BY DEF Watched
  <2> QED
    BY <2>1 DEF CreditSeen, Resembles
<1>7. ListSeen(q)'
  <2>1. ListSeen(r) /\ Apt(r)
    BY DEF Sound
  <2> SUFFICES ASSUME q.op = "approve_void", q.spread,
                      q.overtaken \cap ({"approve_void"} \cup HandingBack) = {}
               PROVE  Mirrored(q.on)' = DOMAIN q.shares
    BY DEF ListSeen
  <2>2. op \notin {"approve_void"} \cup HandingBack
    <3>1. op \in {"approve_void"} \cup HandingBack => <<r.op, op>> \in Watched
      BY DEF Watched, VoidRaces, Resembles
    <3> QED
      BY <3>1
  <2>3. q.on \in DOMAIN receipts /\ Mirrored(q.on) = DOMAIN q.shares
    BY <2>1 DEF ListSeen, Apt, Resembles
  <2> QED
    BY <2>2, <2>3 DEF Grows
<1> QED
  BY <1>1, <1>2, <1>3, <1>4, <1>5, <1>6, <1>7 DEF Sound

(***************************************************************************)
(* The requests after the commit of a request of one session, or of none.  *)
(***************************************************************************)
Served(op, me) ==
    req' = [t \in Sessions |-> IF t \in me THEN Idle ELSE Overtakes(op, t)]

LEMMA IdleIs ==
    ASSUME NEW q, q = Idle
    PROVE  /\ q.op = "idle" /\ ~q.spread
           /\ IsRequest(q) /\ Formed(q)
<1>1. /\ q.op = "idle" /\ q.on = 0 /\ q.amount = 0 /\ q.less = 0 /\ q.shares = <<>>
      /\ q.spread = FALSE /\ q.overtaken = {}
  BY DEF Idle
<1>2. Formed(q)
  BY <1>1 DEF Idle, Formed
<1>3. IsRequest(q)
  <2>1. DOMAIN q.shares = {}
    BY <1>1
  <2>2. q.op \in Ops \cup {"idle"} /\ q.on \in Nat \cup Years /\ {q.amount, q.less} \subseteq Nat
    BY <1>1
  <2>3. q.spread \in BOOLEAN /\ q.overtaken \in SUBSET Ops
    BY <1>1
  <2> QED
    BY <2>1, <2>2, <2>3 DEF IsRequest
<1> QED
  BY <1>1, <1>2, <1>3

LEMMA RequestsAfter ==
    ASSUME Inv, NEW op \in Ops, NEW me \in SUBSET Sessions, Served(op, me)
    PROVE  /\ \A t \in me : req'[t] = Idle
           /\ \A t \in Sessions \ me :
                 /\ IsRequest(req'[t]) /\ Formed(req'[t]) /\ Resembles(req'[t], req[t])
                 /\ req'[t].overtaken
                        = req[t].overtaken \cup (IF <<req[t].op, op>> \in Watched THEN {op} ELSE {})
           /\ req' = [t \in Sessions |-> req'[t]]
<1>1. PICK after : after = req'
  OBVIOUS
<1>2. after = [t \in Sessions |-> IF t \in me THEN Idle ELSE Overtakes(op, t)]
  BY <1>1 DEF Served
<1>3. \A t \in Sessions : after[t] = IF t \in me THEN Idle ELSE Overtakes(op, t)
  BY <1>2
<1>4. after = [t \in Sessions |-> after[t]]
  BY <1>2
<1>5. ASSUME NEW t \in Sessions \ me
      PROVE  /\ IsRequest(after[t]) /\ Formed(after[t]) /\ Resembles(after[t], req[t])
             /\ after[t].overtaken
                    = req[t].overtaken \cup (IF <<req[t].op, op>> \in Watched THEN {op} ELSE {})
  <2>1. IsRequest(req[t]) /\ Formed(req[t])
    BY InvIs DEF Sound
  <2>2. after[t] = Overtakes(op, t)
    BY <1>3
  <2> QED
    BY <2>1, <2>2, Overtaken
<1> QED
  BY <1>1, <1>3, <1>4, <1>5

LEMMA CommitKeeps ==
    ASSUME Inv, NEW op \in Ops, NEW me \in SUBSET Sessions, Served(op, me), Grows(op),
           Ledger', LinesKept', raced' \in SUBSET (Ops \X Ops)
    PROVE  Inv'
<1>1. PICK after : after = req'
  OBVIOUS
<1>2. /\ \A t \in me : after[t] = Idle
      /\ \A t \in Sessions \ me :
            /\ IsRequest(after[t]) /\ Formed(after[t]) /\ Resembles(after[t], req[t])
            /\ after[t].overtaken
                   = req[t].overtaken \cup (IF <<req[t].op, op>> \in Watched THEN {op} ELSE {})
      /\ after = [t \in Sessions |-> after[t]]
  BY <1>1, RequestsAfter
<1>3. ASSUME NEW t \in Sessions PROVE Sound(req[t])'
  <2>1. PICK q : q = after[t]
    OBVIOUS
  <2>2. Sound(q)'
    <3>1. CASE t \in me
      <4>1. q = Idle
        BY <1>2, <2>1, <3>1
      <4>2. q.op = "idle" /\ IsRequest(q) /\ Formed(q)
        BY <4>1, IdleIs
      <4>3. IsRequest(q)' /\ Formed(q)'
        BY <4>2 DEF IsRequest, Formed
      <4>4. (Apt(q) /\ ReceiptSeen(q) /\ ListSeen(q))'
        BY <4>2 DEF Apt, ReceiptSeen, ListSeen, HandingBack, Decisions, Settling
      <4>5. (RefundSeen(q) /\ DepositSeen(q) /\ CreditSeen(q))'
        BY <4>2 DEF RefundSeen, DepositSeen, CreditSeen, Decisions, Settling
      <4> QED
        BY <4>3, <4>4, <4>5 DEF Sound
    <3>2. CASE t \notin me
      <4>1. Sound(req[t])
        BY InvIs
      <4> QED
        BY <1>2, <2>1, <3>2, <4>1, SoundAfter
    <3> QED
      BY <3>1, <3>2
  <2> QED
    BY <1>1, <2>1, <2>2 DEF Sound, IsRequest, Formed, Apt, ReceiptSeen, ListSeen, RefundSeen,
                                       DepositSeen, CreditSeen
<1>4. OneByOne'
  <2> SUFFICES ASSUME NEW t \in Sessions, NEW u \in Sessions, t # u,
                      Allocating(t)', Allocating(u)'
               PROVE  req'[t].on # req'[u].on
    BY DEF OneByOne
  <2>1. ASSUME NEW v \in Sessions, Allocating(v)'
        PROVE  Allocating(v) /\ after[v].on = req[v].on
    <3>1. after[v].op = "take_payment" /\ after[v].spread
      BY <1>1, <2>1 DEF Allocating, Serving
    <3>2. v \notin me
      <4>1. ASSUME v \in me PROVE FALSE
        <5>1. PICK q : q = after[v]
          OBVIOUS
        <5>2. q = Idle
          BY <1>2, <4>1, <5>1
        <5> QED
          BY <3>1, <5>1, <5>2, IdleIs
      <4> QED
        BY <4>1
    <3> QED
      BY <1>2, <3>1, <3>2 DEF Resembles, Allocating, Serving
  <2>2. OneByOne
    BY InvIs
  <2> QED
    BY <1>1, <2>1, <2>2 DEF OneByOne
<1>5. (req = [t \in Sessions |-> req[t]])'
  BY <1>1, <1>2
<1> QED
  BY <1>3, <1>4, <1>5, InvIsNext

(***************************************************************************)
(* The lines stay within their gross where a commit allocates nothing.     *)
(***************************************************************************)
LinesGrow ==
    /\ \A l \in DOMAIN charges : l \in DOMAIN charges' /\ charges'[l].gross = charges[l].gross
    /\ DOMAIN receipts \subseteq DOMAIN receipts'
    /\ \A r \in DOMAIN receipts : receipts'[r].year = receipts[r].year
    /\ raced \subseteq raced'

LEMMA YearsStayRaced ==
    LinesGrow /\ YearsRaced => YearsRaced'
<1> SUFFICES ASSUME LinesGrow, YearsRaced PROVE YearsRaced'
  OBVIOUS
<1>1. PICK p, r \in DOMAIN receipts : receipts[p].year # receipts[r].year
  BY DEF YearsRaced
<1>2. p \in DOMAIN receipts' /\ r \in DOMAIN receipts' /\ receipts'[p].year # receipts'[r].year
  BY <1>1 DEF LinesGrow
<1>3. raced' \cap {<<"take_payment", "take_payment">>} # {}
  BY DEF YearsRaced, Raced, LinesGrow
<1> QED
  BY <1>2, <1>3 DEF YearsRaced, Raced

LEMMA LinesStay ==
    ASSUME Inv, TablesTyped', NEW op \in Ops, NEW me \in SUBSET Sessions, Served(op, me), LinesGrow,
           HandBackVoided => HandBackVoided',
           ~HandBackVoided' =>
               \A l \in DOMAIN charges : Allocated(l)' <= Allocated(l),
           \A l \in DOMAIN charges' \ DOMAIN charges : Allocated(l)' <= charges'[l].gross
    PROVE  LinesKept'
<1>1. LinesKept /\ TablesTyped
  BY InvIs DEF Ledger
<1>2. CASE HandBackVoided \/ YearsRaced
  BY <1>2, YearsStayRaced DEF LinesKept
<1>3. CASE ~HandBackVoided /\ ~YearsRaced /\ ~HandBackVoided'
  <2>1. /\ \A l \in DOMAIN charges : Allocated(l) <= charges[l].gross
        /\ \A t \in Sessions : Fits(req[t])
    BY <1>1, <1>3 DEF LinesKept
  <2>2. \A l \in DOMAIN charges :
            /\ Allocated(l)' <= Allocated(l) /\ Allocated(l)' \in Int /\ Allocated(l) \in Int
            /\ charges'[l].gross = charges[l].gross /\ charges[l].gross \in Int
    <3>1. ASSUME NEW l \in DOMAIN charges PROVE Allocated(l)' \in Int
      <4>1. (Allocated(l) = Money(Issued, {l}, Whys))'
        BY MoneyNext
      <4>2. (TablesTyped => \A Rs, Ls, Ws : Money(Rs, Ls, Ws) \in Int)'
        BY MoneyTyped, PTL
      <4>3. Money(Issued, {l}, Whys)' \in Int
        <5>1. PICK R : R = Issued'
          OBVIOUS
        <5>2. Money(R, {l}, Whys)' \in Int
          BY <4>2
        <5> QED
          BY <5>1, <5>2 DEF Money, RowsIn
      <4> QED
        BY <4>1, <4>3
    <3> QED
      BY <1>1, <1>3, <3>1, AmountsTyped, RowsAre DEF LinesGrow
  <2>3. ASSUME NEW l \in DOMAIN charges' PROVE Allocated(l)' <= charges'[l].gross
    <3>1. CASE l \notin DOMAIN charges
      BY <3>1
    <3>2. CASE l \in DOMAIN charges
      <4>1. PICK a, b, g : a = Allocated(l)' /\ b = Allocated(l) /\ g = charges[l].gross
        OBVIOUS
      <4>2. a <= b /\ b <= g /\ a \in Int /\ b \in Int /\ g \in Int /\ charges'[l].gross = g
        BY <2>1, <2>2, <3>2, <4>1
      <4>3. a <= g
        BY <4>2
      <4> QED
        BY <4>1, <4>2, <4>3
    <3> QED
      BY <3>1, <3>2
  <2>4. ASSUME NEW t \in Sessions PROVE Fits(req[t])'
    <3>1. PICK q, r : q = req'[t] /\ r = req[t]
      OBVIOUS
    <3>2. Fits(q)'
      <4>1. CASE t \in me
        <5>1. q = Idle
          BY <3>1, <4>1, RequestsAfter
        <5> QED
          BY <5>1, IdleIs DEF Fits
      <4>2. CASE t \notin me
        <5>1. Resembles(q, r) /\ r.overtaken \subseteq q.overtaken
          <6>1. PICK more : more = IF <<r.op, op>> \in Watched THEN {op} ELSE {}
            OBVIOUS
          <6>2. Resembles(q, r) /\ q.overtaken = r.overtaken \cup more
            BY <3>1, <4>2, <6>1, RequestsAfter
          <6> QED
            BY <6>2
        <5>2. Fits(r) /\ IsRequest(r) /\ Apt(r)
          BY <2>1, <3>1, InvIs DEF Sound
        <5>3. CASE ~(r.op = "take_payment" /\ r.spread)
          BY <5>1, <5>3 DEF Fits, Resembles
        <5>4. CASE "take_payment" \in r.overtaken /\ \E c \in DOMAIN receipts : receipts[c].year # r.on
          BY <5>1, <5>4 DEF Fits, Resembles, LinesGrow
        <5>5. CASE /\ r.op = "take_payment" /\ r.spread
                   /\ \A l \in DOMAIN r.shares \ {0} : Allocated(l) + r.shares[l] <= charges[l].gross
          <6>1. DOMAIN r.shares \subseteq DOMAIN charges \cup {0}
            BY <5>2, <5>5 DEF Apt
          <6>2. ASSUME NEW l \in DOMAIN r.shares \ {0}
                PROVE  Allocated(l)' + r.shares[l] <= charges'[l].gross
            <7>1. PICK a, b, g, x : /\ a = Allocated(l)' /\ b = Allocated(l)
                                    /\ g = charges[l].gross /\ x = r.shares[l]
              OBVIOUS
            <7>2. l \in DOMAIN charges
              BY <6>1
            <7>3. a <= b /\ a \in Int /\ b \in Int /\ g \in Int /\ charges'[l].gross = g
              BY <2>2, <7>1, <7>2
            <7>4. x \in Int /\ b + x <= g
              BY <5>2, <5>5, <7>1 DEF IsRequest
            <7>5. a + x <= g
              BY <7>3, <7>4
            <7> QED
              BY <7>1, <7>3, <7>5
          <6> QED
            BY <5>1, <6>2 DEF Fits, Resembles
        <5> QED
          BY <5>2, <5>3, <5>4, <5>5 DEF Fits
      <4> QED
        BY <4>1, <4>2
    <3> QED
      BY <3>1, <3>2 DEF Fits
  <2> QED
    BY <2>3, <2>4 DEF LinesKept
<1>4. CASE HandBackVoided'
  BY <1>4 DEF LinesKept
<1> QED
  BY <1>2, <1>3, <1>4

-----------------------------------------------------------------------------
(* Commits that move no money between lines. *)

LEMMA Finished ==
    ASSUME Inv, NEW s \in Sessions, NEW op \in Ops, Serving(s, op), Finish(s)
    PROVE  /\ Served(op, {s})
           /\ raced \subseteq raced' /\ raced' \in SUBSET (Ops \X Ops)
           /\ \A by \in req[s].overtaken : <<op, by>> \in Remembered => <<op, by>> \in raced'
<1>1. IsRequest(req[s]) /\ raced \in SUBSET (Ops \X Ops)
  BY InvIs DEF Sound
<1>2. Served(op, {s})
  <2>1. req' = [t \in Sessions |-> IF t = s THEN Idle ELSE Overtakes(req[s].op, t)]
    BY DEF Finish
  <2> QED
    BY <2>1 DEF Served, Serving
<1>3. raced' = raced \cup (({op} \X req[s].overtaken) \cap Remembered)
  BY DEF Finish, Serving
<1>4. req[s].overtaken \in SUBSET Ops
  BY <1>1 DEF IsRequest
<1> QED
  BY <1>1, <1>2, <1>3, <1>4

LEMMA DoneAtOnce ==
    ASSUME Inv, NEW op \in Ops, AtOnce(op)
    PROVE  Served(op, {}) /\ raced \subseteq raced' /\ raced' \in SUBSET (Ops \X Ops)
<1>1. raced \in SUBSET (Ops \X Ops)
  BY InvIs
<1>2. Served(op, {})
  BY DEF AtOnce, Served
<1> QED
  BY <1>1, <1>2 DEF AtOnce

LEMMA StillRaced ==
    ASSUME raced \subseteq raced', NEW pairs, Raced(pairs)
    PROVE  Raced(pairs)'
  BY DEF Raced

LEMMA LinesAre == TablesTyped => \A k \in DOMAIN charges : charges[k].gross \in Nat \ {0}
  BY RowsAre

LEMMA MoneyAloneKeeps ==
    ASSUME Inv, TablesTyped', NEW op \in Ops, NEW me \in SUBSET Sessions, Served(op, me),
           Grows(op), LinesGrow, raced' \in SUBSET (Ops \X Ops), UNCHANGED <<receipts, rows>>,
           PaidOut' = PaidOut \/ Raced(Decisions \X {"execute_refund"})',
           DepositsTell', DepositSettledOnce'
    PROVE  Inv'
<1>1. /\ Issued' = Issued /\ TotalPaid' = TotalPaid
      /\ \A l : Allocated(l)' = Allocated(l)
      /\ Collected(Issued)' = Collected(Issued)
      /\ (HandBackVoided' <=> HandBackVoided)
  BY RowsStay
<1>2. raced \subseteq raced' /\ Ledger /\ TablesTyped
  BY InvIs DEF LinesGrow, Ledger
<1>3. PaidIsCollected'
  <2>1. CASE HandBackVoided \/ Raced(Decisions \X {"execute_refund"})'
    BY <1>1, <2>1 DEF PaidIsCollected
  <2>2. CASE Raced(Decisions \X {"execute_refund"})
    <3>1. PICK pairs : pairs = Decisions \X {"execute_refund"}
      OBVIOUS
    <3>2. Raced(pairs)'
      BY <1>2, <2>2, <3>1, StillRaced
    <3> QED
      BY <3>1, <3>2 DEF PaidIsCollected, Raced
  <2>3. CASE /\ TotalPaid = Collected(Issued) - PaidOut
             /\ PaidOut' = PaidOut
    BY <1>1, <2>3 DEF PaidIsCollected
  <2> QED
    BY <1>2, <2>1, <2>2, <2>3 DEF Ledger, PaidIsCollected
<1>4. VoidUnwindsReceipt'
  <2>1. \A r : SumRows({i \in DOMAIN rows : rows[i].receipt = r})'
             = SumRows({i \in DOMAIN rows : rows[i].receipt = r})
    BY DEF SumRows
  <2>2. VoidUnwindsReceipt
    BY <1>2 DEF Ledger
  <2>3. CASE Raced(VoidRaces)
    <3>1. PICK pairs : pairs = VoidRaces
      OBVIOUS
    <3>2. Raced(pairs)'
      BY <1>2, <2>3, <3>1, StillRaced
    <3> QED
      BY <3>1, <3>2 DEF VoidUnwindsReceipt, Raced, VoidRaces, HandingBack
  <2>4. CASE \A r \in DOMAIN receipts \ Issued :
                 SumRows({i \in DOMAIN rows : rows[i].receipt = r}) = 0
    BY <1>1, <2>1, <2>4 DEF VoidUnwindsReceipt
  <2> QED
    BY <2>2, <2>3, <2>4 DEF VoidUnwindsReceipt
<1>5. RowsTell'
  BY <1>1, <1>2 DEF Ledger, RowsTell
<1>6. ReceiptsWhole'
  <2>1. \A r : SumRows(PaymentsOf(r))' = SumRows(PaymentsOf(r))
    BY DEF SumRows, PaymentsOf
  <2> QED
    BY <1>2, <2>1 DEF Ledger, ReceiptsWhole
<1>7. Ledger'
  BY <1>3, <1>4, <1>5, <1>6 DEF Ledger
<1>8. ASSUME NEW l \in DOMAIN charges' \ DOMAIN charges
      PROVE  Allocated(l)' <= charges'[l].gross
  <2>1. l # 0 /\ charges'[l].gross \in Nat
    <3>1. (DOMAIN charges = 1 .. Len(charges) /\ Len(charges) \in Nat)'
      BY TablesAre, PTL
    <3>2. (TablesTyped => \A k \in DOMAIN charges : charges[k].gross \in Nat \ {0})'
      BY LinesAre, PTL
    <3> QED
      BY <3>1, <3>2
  <2>2. {i \in LiveRows : rows[i].line = l} = {}
    BY <1>2, <2>1, RowsAre DEF LiveRows
  <2>3. Allocated(l) = 0
    BY <2>2, SumFirst, FS_EmptySet DEF Allocated, SumRows
  <2> QED
    BY <1>1, <2>1, <2>3
<1>9. \A l \in DOMAIN charges : Allocated(l)' <= Allocated(l)
  <2>1. ASSUME NEW l \in DOMAIN charges PROVE Allocated(l)' <= Allocated(l)
    <3>1. PICK a, b : a = Allocated(l) /\ b = Allocated(l)'
      OBVIOUS
    <3>2. a \in Int /\ b = a
      BY <1>1, <1>2, <3>1, AmountsTyped
    <3>3. b <= a
      BY <3>2
    <3> QED
      BY <3>1, <3>3
  <2> QED
    BY <2>1
<1>10. LinesKept'
  BY <1>1, <1>8, <1>9, LinesStay
<1> QED
  BY <1>7, <1>10, CommitKeeps

LEMMA PaidOutStays ==
    ASSUME TablesTyped, returns' = returns, DOMAIN refunds \subseteq DOMAIN refunds',
           \A f \in DOMAIN refunds : refunds'[f].amount = refunds[f].amount, Executed' = Executed
    PROVE  PaidOut' = PaidOut
<1>1. PICK e, f, g : /\ e = Executed /\ f = [x \in DOMAIN refunds |-> refunds[x].amount]
                     /\ g = [x \in DOMAIN refunds' |-> refunds'[x].amount]
  OBVIOUS
<1>2. e \in SUBSET DOMAIN refunds /\ IsFiniteSet(e)
  <2>1. DOMAIN refunds = 1 .. Len(refunds) /\ Len(refunds) \in Nat
    BY TablesAre
  <2>2. IsFiniteSet(DOMAIN refunds)
    BY <2>1, FS_Interval
  <2>3. e \in SUBSET DOMAIN refunds
    BY <1>1 DEF Executed
  <2> QED
    BY <2>2, <2>3, FS_Subset
<1>3. \A x \in e : f[x] \in Int /\ g[x] = f[x]
  BY <1>1, <1>2, RefundsAre
<1>4. SumFunctionOnSet(g, e) = SumFunctionOnSet(f, e)
  BY <1>2, <1>3, SumSame
<1>5. Total(returns)' = Total(returns)
  BY DEF Total
<1>6. PaidOut' = Total(returns)' + SumFunctionOnSet(g, e)
  BY <1>1 DEF PaidOut
<1>7. PaidOut = Total(returns) + SumFunctionOnSet(f, e)
  BY <1>1 DEF PaidOut
<1> QED
  BY <1>4, <1>5, <1>6, <1>7

LEMMA WriteRequestRefundKeeps ==
    ASSUME Inv, NEW s \in Sessions, WriteRequestRefund(s)
    PROVE  Inv'
<1>1. PICK rec : rec = [amount |-> req[s].amount, status |-> "REQUESTED"]
  OBVIOUS
<1>2. /\ Serving(s, "request_refund") /\ Finish(s) /\ refunds' = Append(refunds, rec)
      /\ UNCHANGED <<charges, receipts, rows, discounts, carried, returns, deposits>>
  BY <1>1 DEF WriteRequestRefund
<1>3. TablesTyped /\ Ledger /\ Sound(req[s])
  BY InvIs DEF Ledger
<1>4. rec \in Refund
  <2>1. req[s].amount \in Nat \ {0}
    BY <1>2, <1>3 DEF Sound, IsRequest, Apt, Serving, Settling
  <2> QED
    BY <1>1, <2>1 DEF Refund
<1>5. PICK table, after : table = refunds /\ after = Append(table, rec)
  OBVIOUS
<1>6. /\ after \in Seq(Refund) /\ DOMAIN after = DOMAIN table \cup {Len(table) + 1}
      /\ Len(table) + 1 \notin DOMAIN table
      /\ \A f \in DOMAIN table : after[f] = table[f]
      /\ after[Len(table) + 1] = rec
  <2>1. table \in Seq(Refund)
    BY <1>3, <1>5 DEF TablesTyped
  <2> QED
    BY <1>4, <1>5, <2>1, RowAdded
<1>7. refunds' = after /\ refunds = table
  BY <1>2, <1>5
<1>8. TablesTyped'
  BY <1>2, <1>3, <1>6, <1>7 DEF TablesTyped
<1>9. Executed' = Executed
  <2>1. after[Len(table) + 1].status # "EXECUTED"
    BY <1>1, <1>6
  <2> QED
    BY <1>6, <1>7, <2>1 DEF Executed
<1>10. PaidOut' = PaidOut
  BY <1>2, <1>3, <1>6, <1>7, <1>9, PaidOutStays
<1>11. PICK op : op = "request_refund"
  OBVIOUS
<1>12. op \in Ops /\ op # "approve_void" /\ Serving(s, op)
  BY <1>2, <1>11 DEF Ops
<1>13. Served(op, {s}) /\ raced \subseteq raced' /\ raced' \in SUBSET (Ops \X Ops)
  BY <1>2, <1>12, Finished
<1>14. Issued' = Issued
  BY <1>2 DEF Issued
<1>15. Grows(op)
  BY <1>2, <1>6, <1>7, <1>14, ListStays DEF Grows
<1>16. LinesGrow
  BY <1>2, <1>13 DEF LinesGrow
<1>17. DepositsTell'
  BY <1>2, <1>3 DEF Ledger, DepositsTell
<1>18. DepositSettledOnce'
  <2>1. DepositSettledOnce
    BY <1>3 DEF Ledger
  <2> QED
    BY <1>2, <1>13, <2>1 DEF DepositSettledOnce, Raced
<1> QED
  BY <1>2, <1>8, <1>10, <1>12, <1>13, <1>15, <1>16, <1>17, <1>18, MoneyAloneKeeps

(***************************************************************************)
(* A decision written over an execution is remembered as raced.            *)
(***************************************************************************)
LEMMA WriteDecideRefundKeeps ==
    ASSUME Inv, NEW s \in Sessions, NEW op \in {"approve_refund", "reject_refund"},
           NEW status \in {"APPROVED", "REJECTED"}, WriteDecideRefund(s, op, status)
    PROVE  Inv'
<1>1. PICK f : f = req[s].on
  OBVIOUS
<1>2. /\ Serving(s, op) /\ Finish(s) /\ refunds' = [refunds EXCEPT ![f].status = status]
      /\ UNCHANGED <<charges, receipts, rows, discounts, carried, returns, deposits>>
  BY <1>1 DEF WriteDecideRefund
<1>3. TablesTyped /\ Ledger /\ Sound(req[s])
  BY InvIs DEF Ledger
<1>4. op \in Ops /\ op \in Decisions /\ op # "approve_void" /\ op # "execute_refund"
  BY DEF Ops, Decisions
<1>5. f \in DOMAIN refunds
  BY <1>1, <1>2, <1>3, <1>4 DEF Sound, Apt, Serving
<1>6. PICK rec : rec = [refunds[f] EXCEPT !.status = status]
  OBVIOUS
<1>7. rec = [amount |-> refunds[f].amount, status |-> status] /\ rec \in Refund
  <2>1. refunds[f] = [amount |-> refunds[f].amount, status |-> refunds[f].status]
        /\ refunds[f].amount \in Nat \ {0}
    BY <1>3, <1>5, RefundsAre
  <2>2. rec = [amount |-> refunds[f].amount, status |-> status]
    BY <1>6, <2>1
  <2> QED
    BY <2>1, <2>2 DEF Refund
<1>8. PICK table, after : table = refunds /\ after = [table EXCEPT ![f] = rec]
  OBVIOUS
<1>9. /\ after \in Seq(Refund) /\ DOMAIN after = DOMAIN table
      /\ \A g \in DOMAIN table : after[g] = IF g = f THEN rec ELSE table[g]
  <2>1. table \in Seq(Refund)
    BY <1>3, <1>8 DEF TablesTyped
  <2> QED
    BY <1>5, <1>7, <1>8, <2>1, RowSaved
<1>10. refunds' = after /\ refunds = table
  BY <1>2, <1>6, <1>8
<1>11. TablesTyped'
  BY <1>2, <1>3, <1>9, <1>10 DEF TablesTyped
<1>12. /\ rec.amount = refunds[f].amount /\ rec.status = status /\ status # "EXECUTED"
  BY <1>7
<1>13. Served(op, {s}) /\ raced \subseteq raced' /\ raced' \in SUBSET (Ops \X Ops)
       /\ \A by \in req[s].overtaken : <<op, by>> \in Remembered => <<op, by>> \in raced'
  BY <1>2, <1>4, Finished
<1>14. PaidOut' = PaidOut \/ Raced(Decisions \X {"execute_refund"})'
  <2>1. CASE "execute_refund" \in req[s].overtaken
    <3>1. <<op, "execute_refund">> \in Remembered
      BY <1>4 DEF Remembered
    <3> QED
      BY <1>4, <1>13, <2>1, <3>1 DEF Raced
  <2>2. CASE "execute_refund" \notin req[s].overtaken
    <3>1. refunds[f].status # "EXECUTED"
      BY <1>1, <1>2, <1>3, <1>4, <2>2 DEF Sound, RefundSeen, Serving
    <3>2. Executed' = Executed
      BY <1>5, <1>9, <1>10, <1>12, <3>1 DEF Executed
    <3>3. PaidOut' = PaidOut
      BY <1>2, <1>3, <1>9, <1>10, <1>12, <3>2, PaidOutStays
    <3> QED
      BY <3>3
  <2> QED
    BY <2>1, <2>2
<1>15. Issued' = Issued
  BY <1>2 DEF Issued
<1>16. Grows(op)
  BY <1>2, <1>4, <1>9, <1>10, <1>12, <1>15, ListStays DEF Grows
<1>17. LinesGrow
  BY <1>2, <1>13 DEF LinesGrow
<1>18. DepositsTell'
  BY <1>2, <1>3 DEF Ledger, DepositsTell
<1>19. DepositSettledOnce'
  <2>1. DepositSettledOnce
    BY <1>3 DEF Ledger
  <2> QED
    BY <1>2, <1>13, <2>1 DEF DepositSettledOnce, Raced
<1> QED
  BY <1>2, <1>4, <1>11, <1>13, <1>14, <1>16, <1>17, <1>18, <1>19, MoneyAloneKeeps

LEMMA LineAdded ==
    ASSUME TablesTyped, NEW line \in ChargeLine, charges' = Append(charges, line)
    PROVE  /\ charges' \in Seq(ChargeLine) /\ DOMAIN charges \subseteq DOMAIN charges'
           /\ \A l \in DOMAIN charges : charges'[l] = charges[l]
<1>1. PICK table, after : table = charges /\ after = Append(table, line)
  OBVIOUS
<1>2. table \in Seq(ChargeLine)
  BY <1>1 DEF TablesTyped
<1>3. /\ after \in Seq(ChargeLine) /\ DOMAIN after = DOMAIN table \cup {Len(table) + 1}
      /\ \A i \in DOMAIN table : after[i] = table[i]
  BY <1>1, <1>2, RowAdded
<1> QED
  BY <1>1, <1>3

LEMMA ChargeKeeps ==
    ASSUME Inv, NEW line \in Fees, Charge(line)
    PROVE  Inv'
<1>1. /\ charges' = Append(charges, line) /\ AtOnce("charge")
      /\ UNCHANGED <<receipts, rows, discounts, carried, returns, refunds, deposits>>
  BY DEF Charge
<1>2. TablesTyped /\ Ledger
  BY InvIs DEF Ledger
<1>3. /\ charges' \in Seq(ChargeLine) /\ DOMAIN charges \subseteq DOMAIN charges'
      /\ \A l \in DOMAIN charges : charges'[l] = charges[l]
  BY <1>1, <1>2, LineAdded, ConstantsAssumption
<1>4. TablesTyped'
  BY <1>1, <1>2, <1>3 DEF TablesTyped
<1>5. PICK op : op = "charge"
  OBVIOUS
<1>6. op \in Ops /\ op # "approve_void" /\ AtOnce(op)
  BY <1>1, <1>5 DEF Ops
<1>7. Served(op, {}) /\ raced \subseteq raced' /\ raced' \in SUBSET (Ops \X Ops)
  BY <1>6, DoneAtOnce
<1>8. PaidOut' = PaidOut
  <2>1. Executed' = Executed
    BY <1>1 DEF Executed
  <2> QED
    BY <1>1, <1>2, <2>1, PaidOutStays
<1>9. Grows(op)
  <2>1. Issued' = Issued
    BY <1>1 DEF Issued
  <2> QED
    BY <1>1, <1>3, <2>1, ListStays DEF Grows
<1>10. LinesGrow
  BY <1>1, <1>3, <1>7 DEF LinesGrow
<1>11. DepositsTell' /\ DepositSettledOnce'
  <2>1. DepositSettledOnce /\ DepositsTell
    BY <1>2 DEF Ledger
  <2> QED
    BY <1>1, <1>7, <2>1 DEF DepositSettledOnce, DepositsTell, Raced
<1>12. {} \in SUBSET Sessions
  OBVIOUS
<1> QED
  BY <1>1, <1>4, <1>6, <1>7, <1>8, <1>9, <1>10, <1>11, <1>12, MoneyAloneKeeps

LEMMA CarryForwardKeeps ==
    ASSUME Inv, CarryForward
    PROVE  Inv'
<1>1. /\ carried' = OldCredit /\ AtOnce("carry_forward")
      /\ UNCHANGED <<charges, receipts, rows, discounts, returns, refunds, deposits>>
  BY DEF CarryForward
<1>2. TablesTyped /\ Ledger
  BY InvIs DEF Ledger
<1>3. TablesTyped'
  BY <1>1, <1>2, ConstantsAssumption DEF TablesTyped
<1>4. PICK op : op = "carry_forward"
  OBVIOUS
<1>5. op \in Ops /\ op # "approve_void" /\ AtOnce(op)
  BY <1>1, <1>4 DEF Ops
<1>6. Served(op, {}) /\ raced \subseteq raced' /\ raced' \in SUBSET (Ops \X Ops)
  BY <1>5, DoneAtOnce
<1>7. PaidOut' = PaidOut
  <2>1. Executed' = Executed
    BY <1>1 DEF Executed
  <2> QED
    BY <1>1, <1>2, <2>1, PaidOutStays
<1>8. Grows(op)
  <2>1. Issued' = Issued
    BY <1>1 DEF Issued
  <2> QED
    BY <1>1, <2>1, ListStays DEF Grows
<1>9. LinesGrow
  BY <1>1, <1>6 DEF LinesGrow
<1>10. DepositsTell' /\ DepositSettledOnce'
  <2>1. DepositSettledOnce /\ DepositsTell
    BY <1>2 DEF Ledger
  <2> QED
    BY <1>1, <1>6, <2>1 DEF DepositSettledOnce, DepositsTell, Raced
<1>11. {} \in SUBSET Sessions
  OBVIOUS
<1> QED
  BY <1>1, <1>3, <1>5, <1>6, <1>7, <1>8, <1>9, <1>10, <1>11, MoneyAloneKeeps

LEMMA WriteGrantDiscountKeeps ==
    ASSUME Inv, NEW s \in Sessions, WriteGrantDiscount(s)
    PROVE  Inv'
<1>1. PICK a : a = req[s].amount
  OBVIOUS
<1>2. /\ Serving(s, "grant_discount") /\ Finish(s) /\ discounts' = Append(discounts, a)
      /\ UNCHANGED <<charges, receipts, rows, carried, returns, refunds, deposits>>
  BY <1>1 DEF WriteGrantDiscount
<1>3. TablesTyped /\ Ledger /\ Sound(req[s])
  BY InvIs DEF Ledger
<1>4. a \in Nat \ {0}
  BY <1>1, <1>2, <1>3 DEF Sound, IsRequest, Apt, Serving, Settling
<1>5. discounts' \in Seq(Nat \ {0})
  BY <1>2, <1>3, <1>4, RowAdded DEF TablesTyped
<1>6. TablesTyped'
  BY <1>2, <1>3, <1>5 DEF TablesTyped
<1>7. PICK op : op = "grant_discount"
  OBVIOUS
<1>8. op \in Ops /\ op # "approve_void" /\ Serving(s, op)
  BY <1>2, <1>7 DEF Ops
<1>9. Served(op, {s}) /\ raced \subseteq raced' /\ raced' \in SUBSET (Ops \X Ops)
  BY <1>2, <1>8, Finished
<1>10. PaidOut' = PaidOut
  <2>1. Executed' = Executed
    BY <1>2 DEF Executed
  <2> QED
    BY <1>2, <1>3, <2>1, PaidOutStays
<1>11. Grows(op)
  <2>1. Issued' = Issued
    BY <1>2 DEF Issued
  <2> QED
    BY <1>2, <2>1, ListStays DEF Grows
<1>12. LinesGrow
  BY <1>2, <1>9 DEF LinesGrow
<1>13. DepositsTell' /\ DepositSettledOnce'
  <2>1. DepositSettledOnce /\ DepositsTell
    BY <1>3 DEF Ledger
  <2> QED
    BY <1>2, <1>9, <2>1 DEF DepositSettledOnce, DepositsTell, Raced
<1> QED
  BY <1>2, <1>6, <1>8, <1>9, <1>10, <1>11, <1>12, <1>13, MoneyAloneKeeps

(***************************************************************************)
(* A deposit settled while another settlement of it was under way is       *)
(* remembered as raced.                                                    *)
(***************************************************************************)
LEMMA SettleKeeps ==
    ASSUME Inv, NEW s \in Sessions, NEW op \in Settling, Serving(s, op), Finish(s),
           NEW kind \in {"return", "forfeiture"}, NEW deduction \in Nat, NEW rec,
           rec = [line |-> req[s].on, kind |-> kind, amount |-> req[s].amount,
                  deduction |-> deduction],
           deposits' = Append(deposits, rec),
           charges' = charges \/ \E line \in ChargeLine : charges' = Append(charges, line),
           UNCHANGED <<receipts, rows, discounts, carried, returns, refunds>>
    PROVE  Inv'
<1>1. TablesTyped /\ Ledger /\ Sound(req[s])
  BY InvIs DEF Ledger
<1>2. /\ charges' \in Seq(ChargeLine) /\ DOMAIN charges \subseteq DOMAIN charges'
      /\ \A l \in DOMAIN charges : charges'[l] = charges[l]
  <2>1. CASE charges' = charges
    BY <1>1, <2>1 DEF TablesTyped
  <2>2. CASE \E line \in ChargeLine : charges' = Append(charges, line)
    <3>1. PICK line \in ChargeLine : charges' = Append(charges, line)
      BY <2>2
    <3> QED
      BY <1>1, <3>1, LineAdded
  <2> QED
    BY <2>1, <2>2
<1>3. req[s].amount \in Nat \ {0} /\ req[s].on \in Nat \ {0} /\ op \in Ops /\ op # "approve_void"
  BY <1>1 DEF Sound, IsRequest, Apt, Serving, Settling, Ops
<1>4. rec \in Settlement /\ rec.line = req[s].on /\ rec.amount > 0
  <2>1. rec \in Settlement
    BY <1>3 DEF Settlement
  <2>2. rec.line = req[s].on /\ rec.amount = req[s].amount
    OBVIOUS
  <2> QED
    BY <1>3, <2>1, <2>2
<1>5. PICK table, after, n : table = deposits /\ after = Append(table, rec) /\ n = Len(table) + 1
  OBVIOUS
<1>6. /\ after \in Seq(Settlement) /\ DOMAIN after = DOMAIN table \cup {n}
      /\ n \notin DOMAIN table
      /\ \A d \in DOMAIN table : after[d] = table[d]
      /\ after[n] = rec
  <2>1. table \in Seq(Settlement)
    BY <1>1, <1>5 DEF TablesTyped
  <2> QED
    BY <1>4, <1>5, <2>1, RowAdded
<1>7. deposits' = after /\ deposits = table
  BY <1>5
<1>8. TablesTyped'
  BY <1>1, <1>2, <1>6, <1>7 DEF TablesTyped
<1>9. /\ Served(op, {s}) /\ raced \subseteq raced' /\ raced' \in SUBSET (Ops \X Ops)
      /\ \A by \in req[s].overtaken : <<op, by>> \in Remembered => <<op, by>> \in raced'
  BY <1>3, Finished
<1>10. PaidOut' = PaidOut
  <2>1. Executed' = Executed
    BY DEF Executed
  <2> QED
    BY <1>1, <2>1, PaidOutStays
<1>11. Grows(op)
  <2>1. Issued' = Issued
    BY DEF Issued
  <2> QED
    BY <1>2, <2>1, ListStays DEF Grows
<1>12. LinesGrow
  BY <1>2, <1>9 DEF LinesGrow
<1>13. DepositsTell'
  BY <1>1, <1>4, <1>6, <1>7 DEF Ledger, DepositsTell
<1>14. DepositSettledOnce'
  <2>1. DepositSettledOnce
    BY <1>1 DEF Ledger
  <2>2. CASE Raced(Settling \X Settling)
    BY <1>9, <2>2 DEF DepositSettledOnce, Raced
  <2>3. CASE req[s].overtaken \cap Settling # {}
    <3>1. PICK by \in req[s].overtaken : by \in Settling
      BY <2>3
    <3>2. <<op, by>> \in Remembered
      BY <3>1 DEF Remembered
    <3> QED
      BY <1>9, <3>1, <3>2 DEF DepositSettledOnce, Raced
  <2>4. CASE /\ req[s].overtaken \cap Settling = {}
             /\ \A c, d \in DOMAIN deposits : deposits[c].line = deposits[d].line => c = d
    <3>1. \A d \in DOMAIN deposits : deposits[d].line # req[s].on
      BY <1>1, <2>4 DEF Sound, DepositSeen, Serving
    <3> QED
      BY <1>4, <1>6, <1>7, <2>4, <3>1 DEF DepositSettledOnce
  <2> QED
    BY <2>1, <2>2, <2>3, <2>4 DEF DepositSettledOnce
<1> QED
  BY <1>3, <1>8, <1>9, <1>10, <1>11, <1>12, <1>13, <1>14, MoneyAloneKeeps

LEMMA WriteReturnDepositKeeps ==
    ASSUME Inv, NEW s \in Sessions, WriteReturnDeposit(s)
    PROVE  Inv'
<1>1. PICK op, kind, d, rec :
          /\ op = "return_deposit" /\ kind = "return" /\ d = req[s].less
          /\ rec = [line |-> req[s].on, kind |-> kind, amount |-> req[s].amount, deduction |-> d]
  OBVIOUS
<1>2. d \in Nat
  BY <1>1, InvIs DEF Sound, IsRequest
<1>3. op \in Settling /\ kind \in {"return", "forfeiture"}
  BY <1>1 DEF Settling
<1>4. /\ Serving(s, op) /\ Finish(s) /\ deposits' = Append(deposits, rec)
      /\ UNCHANGED <<charges, receipts, rows, discounts, carried, returns, refunds>>
  BY <1>1 DEF WriteReturnDeposit
<1> QED
  BY <1>1, <1>2, <1>3, <1>4, SettleKeeps

LEMMA WriteForfeitDepositKeeps ==
    ASSUME Inv, NEW s \in Sessions, WriteForfeitDeposit(s)
    PROVE  Inv'
<1>1. PICK op, kind, d, rec, line :
          /\ op = "forfeit_deposit" /\ kind = "forfeiture" /\ d = 0
          /\ rec = [line |-> req[s].on, kind |-> kind, amount |-> req[s].amount, deduction |-> d]
          /\ line = [type |-> "EXTRA_FEE", gross |-> req[s].amount, shareable |-> FALSE]
  OBVIOUS
<1>2. op \in Settling /\ kind \in {"return", "forfeiture"} /\ d \in Nat
  BY <1>1 DEF Settling
<1>3. /\ Serving(s, op) /\ Finish(s) /\ deposits' = Append(deposits, rec)
      /\ charges' = Append(charges, line)
      /\ UNCHANGED <<receipts, rows, discounts, carried, returns, refunds>>
  BY <1>1 DEF WriteForfeitDeposit
<1>4. line \in ChargeLine
  <2>1. req[s].amount \in Nat \ {0}
    BY <1>2, <1>3, InvIs DEF Sound, IsRequest, Apt, Serving, Settling
  <2>2. "EXTRA_FEE" \in ChargeTypes
    <3>1. AllocationOrder[6] = "EXTRA_FEE" /\ 6 \in DOMAIN AllocationOrder
      BY DEF AllocationOrder
    <3> QED
      BY <3>1 DEF ChargeTypes, ToSet
  <2> QED
    BY <1>1, <2>1, <2>2 DEF ChargeLine
<1> QED
  BY <1>1, <1>2, <1>3, <1>4, SettleKeeps

-----------------------------------------------------------------------------
(* Payments. *)

LEMMA PaymentTables ==
    ASSUME Inv, NEW s \in Sessions, WritePayment(s)
    PROVE  /\ req[s].amount \in Nat \ {0} /\ Len(receipts) + 1 \notin DOMAIN receipts
           /\ TablesTyped'
           /\ DOMAIN receipts' = DOMAIN receipts \cup {Len(receipts) + 1}
           /\ \A r \in DOMAIN receipts : receipts'[r] = receipts[r]
           /\ receipts'[Len(receipts) + 1].amount = req[s].amount
           /\ receipts'[Len(receipts) + 1].year = req[s].on
           /\ Issued' = Issued \cup {Len(receipts) + 1}
           /\ IsFiniteSet(DOMAIN req[s].shares)
           /\ \E n, at : PaidIn(req[s].shares, n, at)
<1>1. PICK r, f, rec : /\ r = req[s] /\ f = r.shares
                       /\ rec = [amount |-> r.amount, year |-> r.on, status |-> "ISSUED"]
  OBVIOUS
<1>2. /\ r.op = "take_payment" /\ r.spread
      /\ receipts' = Append(receipts, rec)
      /\ Joined(rows', rows, PaymentRows(f))
      /\ UNCHANGED <<charges, discounts, carried, returns, refunds, deposits>>
  BY <1>1 DEF WritePayment, Serving, Joined
<1>3. TablesTyped /\ Sound(r)
  BY <1>1, InvIs DEF Ledger
<1>4. /\ r.amount \in Nat \ {0} /\ r.on \in Years
      /\ DOMAIN f \subseteq DOMAIN charges \cup {0}
      /\ \A x \in DOMAIN f : f[x] \in Int \ {0}
  BY <1>1, <1>2, <1>3 DEF Sound, IsRequest, Apt
<1>5. rec \in Receipt /\ rec.amount = r.amount /\ rec.year = r.on /\ rec.status = "ISSUED"
  <2>1. rec \in Receipt
    BY <1>1, <1>4 DEF Receipt
  <2>2. rec.amount = r.amount /\ rec.year = r.on /\ rec.status = "ISSUED"
    BY <1>1
  <2> QED
    BY <2>1, <2>2
<1>6. PICK table, after, N : table = receipts /\ after = Append(table, rec) /\ N = Len(table) + 1
  OBVIOUS
<1>7. /\ after \in Seq(Receipt) /\ DOMAIN after = DOMAIN table \cup {N} /\ N \notin DOMAIN table
      /\ \A i \in DOMAIN table : after[i] = table[i]
      /\ after[N] = rec /\ Len(table) \in Nat
  <2>1. table \in Seq(Receipt)
    BY <1>3, <1>6 DEF TablesTyped
  <2> QED
    BY <1>5, <1>6, <2>1, RowAdded
<1>8. receipts' = after /\ receipts = table
  BY <1>2, <1>6
<1>9. Issued' = Issued \cup {N}
  BY <1>5, <1>7, <1>8 DEF Issued
<1>10. IsFiniteSet(DOMAIN f) /\ \E n, at : PaidIn(f, n, at)
  BY <1>2, <1>3, <1>4, PaymentWritten
<1>11. PICK n, at : PaidIn(f, n, at)
  BY <1>10
<1>12. rows' \in Seq(Allocation)
  BY <1>11 DEF PaidIn
<1>13. ASSUME NEW i \in DOMAIN rows'
       PROVE  rows'[i].receipt \in DOMAIN after /\ rows'[i].line \in DOMAIN charges \cup {0}
  <2>1. DOMAIN rows' = 1 .. (Len(rows) + n) /\ n \in Nat /\ DOMAIN rows = 1 .. Len(rows)
        /\ Len(rows) \in Nat
    BY <1>3, <1>11, TablesAre DEF PaidIn, Written
  <2>2. CASE i \in DOMAIN rows
    <3>1. rows'[i] = rows[i]
      BY <1>11, <2>2 DEF PaidIn
    <3>2. rows[i].receipt \in DOMAIN receipts /\ rows[i].line \in DOMAIN charges \cup {0}
      BY <1>3, <2>2, RowsAre
    <3> QED
      BY <1>7, <1>8, <3>1, <3>2
  <2>3. CASE i \notin DOMAIN rows
    <3>1. PICK k \in 1 .. n : i = Len(rows) + k
      <4>1. i - Len(rows) \in 1 .. n /\ i = Len(rows) + (i - Len(rows))
        BY <2>1, <2>3
      <4> QED
        BY <4>1
    <3>2. rows'[i].receipt = Len(receipts) + 1 /\ rows'[i].line = at[k] /\ at[k] \in DOMAIN f
      BY <1>11, <3>1 DEF PaidIn, Written
    <3> QED
      BY <1>4, <1>6, <1>7, <1>8, <3>2
  <2> QED
    BY <2>2, <2>3
<1>14. TablesTyped'
  BY <1>2, <1>3, <1>7, <1>8, <1>12, <1>13 DEF TablesTyped
<1> QED
  BY <1>1, <1>4, <1>5, <1>6, <1>7, <1>8, <1>9, <1>10, <1>14

(***************************************************************************)
(* A payment moves what it brings, on the lines it is spread over, and     *)
(* nothing of other receipts.                                              *)
(***************************************************************************)
LEMMA PaymentMoves ==
    ASSUME Inv, NEW s \in Sessions, WritePayment(s), NEW f, f = req[s].shares,
           NEW N, N = Len(receipts) + 1
    PROVE  /\ TotalPaid' = TotalPaid + req[s].amount
           /\ \A l : Allocated(l)' = Allocated(l) + (IF l \in DOMAIN f THEN f[l] ELSE 0)
           /\ \A r \in DOMAIN receipts :
                 /\ SumRows({i \in DOMAIN rows : rows[i].receipt = r})'
                        = SumRows({i \in DOMAIN rows : rows[i].receipt = r})
                 /\ SumRows(PaymentsOf(r))' = SumRows(PaymentsOf(r))
           /\ SumRows(PaymentsOf(N))' = req[s].amount
<1>1. TablesTyped /\ TablesTyped' /\ Issued' = Issued \cup {N} /\ N \notin DOMAIN receipts
      /\ IsFiniteSet(DOMAIN f)
  BY PaymentTables, InvTables
<1>2. PICK n, at : PaidIn(f, n, at)
  BY PaymentTables
<1>3. /\ Written(f, n, at)
      /\ \A k \in 1 .. n : /\ rows'[Len(rows) + k].receipt = N
                           /\ rows'[Len(rows) + k].line = at[k]
                           /\ rows'[Len(rows) + k].why = "payment"
      /\ \A k \in 1 .. n : at[k] \in DOMAIN f
  BY <1>2 DEF PaidIn, Written
<1>4. /\ \A x \in DOMAIN f : f[x] \in Int /\ x \in Nat
      /\ SumFunctionOnSet(f, DOMAIN f) = req[s].amount
  <2>1. Sound(req[s]) /\ req[s].op = "take_payment" /\ req[s].spread
    BY InvIs DEF WritePayment, Serving
  <2> QED
    BY <2>1, SumIsOnSet DEF Sound, IsRequest, Apt
<1>5. PICK R : R = Issued'
  OBVIOUS
<1>6. \A Ls : Money(R, Ls, Whys) = Money(Issued, Ls, Whys)
  <2>1. \A Ls : RowsIn(R, Ls, Whys) = RowsIn(Issued, Ls, Whys)
    BY <1>1, <1>5, RowsAre DEF RowsIn
  <2> QED
    BY <2>1 DEF Money
<1>7. ASSUME NEW Ls
      PROVE  Money(R, Ls, Whys)' = Money(Issued, Ls, Whys) + SumFunctionOnSet(f, DOMAIN f \cap Ls)
  <2>1. PICK P, W, Rs : P = DOMAIN f \cap Ls /\ W = Whys /\ Rs = R
    OBVIOUS
  <2>2. \A k \in 1 .. n : (/\ rows'[Len(rows) + k].receipt \in Rs
                           /\ rows'[Len(rows) + k].line \in Ls
                           /\ rows'[Len(rows) + k].why \in W) <=> at[k] \in P
    BY <1>1, <1>3, <1>5, <2>1 DEF Whys
  <2>3. P \in SUBSET DOMAIN f
    BY <2>1
  <2>4. Money(Rs, Ls, W)' = Money(Rs, Ls, W) + SumFunctionOnSet(f, P)
    BY <1>1, <1>3, <1>4, <2>2, <2>3, MoneyWritten
  <2> QED
    <3>1. Money(Rs, Ls, W)' = Money(R, Ls, Whys)'
      BY <2>1 DEF Money, RowsIn, Whys
    <3>2. Money(Rs, Ls, W) = Money(Issued, Ls, Whys)
      BY <1>6, <2>1
    <3> QED
      BY <2>1, <2>4, <3>1, <3>2
<1>8. ASSUME NEW r, NEW Ws, r # N
      PROVE  Money({r}, Nat, Ws)' = Money({r}, Nat, Ws)
  <2>1. PICK P, Rs : P = {} /\ Rs = {r}
    OBVIOUS
  <2>2. \A k \in 1 .. n : (/\ rows'[Len(rows) + k].receipt \in Rs
                           /\ rows'[Len(rows) + k].line \in Nat
                           /\ rows'[Len(rows) + k].why \in Ws) <=> at[k] \in P
    BY <1>3, <1>8, <2>1
  <2>3. P \in SUBSET DOMAIN f
    BY <2>1
  <2>4. Money(Rs, Nat, Ws)' = Money(Rs, Nat, Ws) + SumFunctionOnSet(f, P)
    BY <1>1, <1>3, <1>4, <2>2, <2>3, MoneyWritten
  <2>5. SumFunctionOnSet(f, P) = 0
    BY <2>1, SumFirst, FS_EmptySet
  <2>6. Money(Rs, Nat, Ws) \in Int
    BY <1>1, MoneyTyped
  <2> QED
    BY <2>1, <2>4, <2>5, <2>6
<1>9. Money({N}, Nat, {"payment"})' = req[s].amount
  <2>1. PICK P, Rs, Ws : P = DOMAIN f /\ Rs = {N} /\ Ws = {"payment"}
    OBVIOUS
  <2>2. \A k \in 1 .. n : (/\ rows'[Len(rows) + k].receipt \in Rs
                           /\ rows'[Len(rows) + k].line \in Nat
                           /\ rows'[Len(rows) + k].why \in Ws) <=> at[k] \in P
    BY <1>3, <1>4, <2>1
  <2>3. P \in SUBSET DOMAIN f
    BY <2>1
  <2>4. Money(Rs, Nat, Ws)' = Money(Rs, Nat, Ws) + SumFunctionOnSet(f, P)
    BY <1>1, <1>3, <1>4, <2>2, <2>3, MoneyWritten
  <2>5. RowsIn(Rs, Nat, Ws) = {}
    BY <1>1, <2>1, RowsAre DEF RowsIn
  <2>6. Money(Rs, Nat, Ws) = 0
    BY <2>5, SumFirst, FS_EmptySet DEF Money
  <2>7. req[s].amount \in Nat
    BY PaymentTables
  <2> QED
    BY <1>4, <2>1, <2>4, <2>6, <2>7
<1>10. /\ TotalPaid' = Money(R, Nat, Whys)'
       /\ \A l : Allocated(l)' = Money(R, {l}, Whys)'
       /\ \A r : SumRows({i \in DOMAIN rows : rows[i].receipt = r})' = Money({r}, Nat, Whys)'
       /\ \A r : SumRows(PaymentsOf(r))' = Money({r}, Nat, {"payment"})'
  BY <1>1, <1>5, MoneyIsNext
<1>11. /\ TotalPaid = Money(Issued, Nat, Whys)
       /\ \A l : Allocated(l) = Money(Issued, {l}, Whys)
       /\ \A r : SumRows({i \in DOMAIN rows : rows[i].receipt = r}) = Money({r}, Nat, Whys)
       /\ \A r : SumRows(PaymentsOf(r)) = Money({r}, Nat, {"payment"})
  BY <1>1, SumsAreMoney
<1>12. TotalPaid' = TotalPaid + req[s].amount
  <2>1. DOMAIN f \cap Nat = DOMAIN f
    BY <1>4
  <2> QED
    BY <1>4, <1>7, <1>10, <1>11, <2>1
<1>13. ASSUME NEW l PROVE Allocated(l)' = Allocated(l) + (IF l \in DOMAIN f THEN f[l] ELSE 0)
  <2>1. PICK P, x : P = DOMAIN f \cap {l} /\ x = IF l \in DOMAIN f THEN f[l] ELSE 0
    OBVIOUS
  <2>2. SumFunctionOnSet(f, P) = x
    <3>1. CASE l \in DOMAIN f
      <4>1. P = {} \cup {l} /\ l \notin {} /\ \A y \in {} \cup {l} : f[y] \in Int
        BY <1>4, <2>1, <3>1
      <4>2. SumFunctionOnSet(f, P) = f[l] + SumFunctionOnSet(f, {})
        BY <4>1, SumAddOne, FS_EmptySet
      <4>3. SumFunctionOnSet(f, {}) = 0
        BY SumFirst, FS_EmptySet
      <4>4. PICK y, z : y = f[l] /\ z = SumFunctionOnSet(f, P)
        OBVIOUS
      <4>5. y \in Int /\ z = y + 0
        BY <1>4, <3>1, <4>2, <4>3, <4>4
      <4>6. z = y
        BY <4>5
      <4> QED
        BY <2>1, <3>1, <4>4, <4>6
    <3>2. CASE l \notin DOMAIN f
      BY <2>1, <3>2, SumFirst, FS_EmptySet
    <3> QED
      BY <3>1, <3>2
  <2>3. Money(R, {l}, Whys)' = Money(Issued, {l}, Whys) + SumFunctionOnSet(f, P)
    BY <1>7, <2>1
  <2> QED
    BY <1>10, <1>11, <2>1, <2>2, <2>3
<1>14. \A r \in DOMAIN receipts :
           /\ SumRows({i \in DOMAIN rows : rows[i].receipt = r})'
                  = SumRows({i \in DOMAIN rows : rows[i].receipt = r})
           /\ SumRows(PaymentsOf(r))' = SumRows(PaymentsOf(r))
  <2>1. ASSUME NEW r \in DOMAIN receipts
        PROVE  /\ SumRows({i \in DOMAIN rows : rows[i].receipt = r})'
                      = SumRows({i \in DOMAIN rows : rows[i].receipt = r})
               /\ SumRows(PaymentsOf(r))' = SumRows(PaymentsOf(r))
    <3>1. r # N
      BY <1>1
    <3>2. Money({r}, Nat, Whys)' = Money({r}, Nat, Whys)
      BY <1>8, <3>1
    <3>3. Money({r}, Nat, {"payment"})' = Money({r}, Nat, {"payment"})
      BY <1>8, <3>1
    <3>4. SumRows({i \in DOMAIN rows : rows[i].receipt = r})'
              = SumRows({i \in DOMAIN rows : rows[i].receipt = r})
      BY <1>10, <1>11, <3>2
    <3>5. SumRows(PaymentsOf(r))' = SumRows(PaymentsOf(r))
      BY <1>10, <1>11, <3>3
    <3> QED
      BY <3>4, <3>5
  <2> QED
    BY <2>1
<1>15. SumRows(PaymentsOf(N))' = req[s].amount
  BY <1>9, <1>10
<1> QED
  BY <1>12, <1>13, <1>14, <1>15

LEMMA CollectedMore ==
    ASSUME TablesTyped, NEW N, N \notin DOMAIN receipts, DOMAIN receipts' = DOMAIN receipts \cup {N},
           \A r \in DOMAIN receipts : receipts'[r] = receipts[r], receipts'[N].amount \in Nat,
           Issued' = Issued \cup {N}
    PROVE  /\ Collected(Issued)' = Collected(Issued) + receipts'[N].amount
           /\ Collected(Issued) \in Int
<1>1. PICK R, S, f, g : /\ R = Issued /\ S = Issued'
                        /\ f = [r \in DOMAIN receipts |-> receipts[r].amount]
                        /\ g = [r \in DOMAIN receipts' |-> receipts'[r].amount]
  OBVIOUS
<1>2. Collected(Issued) = SumFunctionOnSet(f, R) /\ Collected(Issued)' = SumFunctionOnSet(g, S)
  BY <1>1 DEF Collected
<1>3. R \subseteq DOMAIN receipts /\ IsFiniteSet(R)
  <2>1. DOMAIN receipts = 1 .. Len(receipts) /\ Len(receipts) \in Nat
    BY TablesAre
  <2>2. IsFiniteSet(DOMAIN receipts)
    BY <2>1, FS_Interval
  <2>3. R \in SUBSET DOMAIN receipts
    BY <1>1 DEF Issued
  <2> QED
    BY <2>2, <2>3, FS_Subset
<1>4. \A r \in R : f[r] \in Int /\ g[r] = f[r]
  BY <1>1, <1>3, RowsAre
<1>5. S = R \cup {N} /\ N \notin R /\ g[N] = receipts'[N].amount
  BY <1>1, <1>3
<1>6. SumFunctionOnSet(g, S) = g[N] + SumFunctionOnSet(g, R)
  BY <1>3, <1>4, <1>5, SumAddOne
<1>7. SumFunctionOnSet(g, R) = SumFunctionOnSet(f, R) /\ SumFunctionOnSet(f, R) \in Int
  BY <1>3, <1>4, SumSame, SumTyped
<1> QED
  BY <1>2, <1>5, <1>6, <1>7

LEMMA ReturnsTyped == TablesTyped => Total(returns) \in Int
<1> SUFFICES ASSUME TablesTyped PROVE Total(returns) \in Int
  OBVIOUS
<1>1. PICK f : f = returns
  OBVIOUS
<1>2. f \in Seq(Nat \ {0})
  BY <1>1 DEF TablesTyped
<1>3. DOMAIN f = 1 .. Len(f) /\ Len(f) \in Nat /\ \A x \in DOMAIN f : f[x] \in Int
  BY <1>2, LenProperties
<1>4. IsFiniteSet(DOMAIN f)
  BY <1>3, FS_Interval
<1> QED
  BY <1>1, <1>3, <1>4, SumTyped, SumIsOnSet DEF Total

LEMMA ExecutedTyped ==
    TablesTyped =>
        SumFunctionOnSet([f \in DOMAIN refunds |-> refunds[f].amount], Executed) \in Int
<1> SUFFICES ASSUME TablesTyped
             PROVE  SumFunctionOnSet([f \in DOMAIN refunds |-> refunds[f].amount], Executed) \in Int
  OBVIOUS
<1>1. PICK g, e : g = [f \in DOMAIN refunds |-> refunds[f].amount] /\ e = Executed
  OBVIOUS
<1>2. e \in SUBSET DOMAIN refunds
  BY <1>1 DEF Executed
<1>3. DOMAIN refunds = 1 .. Len(refunds) /\ Len(refunds) \in Nat
  BY TablesAre
<1>4. IsFiniteSet(DOMAIN refunds)
  BY <1>3, FS_Interval
<1>5. IsFiniteSet(e) /\ \A f \in e : g[f] \in Int
  BY <1>1, <1>2, <1>4, FS_Subset, RefundsAre
<1> QED
  BY <1>1, <1>5, SumTyped

LEMMA PaidOutTyped == TablesTyped => PaidOut \in Int
<1> SUFFICES ASSUME TablesTyped PROVE PaidOut \in Int
  OBVIOUS
<1>1. PICK a, b : /\ a = Total(returns)
                  /\ b = SumFunctionOnSet([f \in DOMAIN refunds |-> refunds[f].amount], Executed)
  OBVIOUS
<1>2. a \in Int /\ b \in Int /\ PaidOut = a + b
  BY <1>1, ReturnsTyped, ExecutedTyped DEF PaidOut
<1> QED
  BY <1>2

LEMMA CollectedTyped == TablesTyped => Collected(Issued) \in Int
<1> SUFFICES ASSUME TablesTyped PROVE Collected(Issued) \in Int
  OBVIOUS
<1>1. PICK g, e : g = [r \in DOMAIN receipts |-> receipts[r].amount] /\ e = Issued
  OBVIOUS
<1>2. e \in SUBSET DOMAIN receipts
  BY <1>1 DEF Issued
<1>3. DOMAIN receipts = 1 .. Len(receipts) /\ Len(receipts) \in Nat
  BY TablesAre
<1>4. IsFiniteSet(DOMAIN receipts)
  BY <1>3, FS_Interval
<1>5. IsFiniteSet(e) /\ \A r \in e : g[r] \in Int
  BY <1>1, <1>2, <1>4, FS_Subset, RowsAre
<1> QED
  BY <1>1, <1>5, SumTyped DEF Collected

LEMMA WritePaymentKeeps ==
    ASSUME Inv, NEW s \in Sessions, WritePayment(s)
    PROVE  Inv'
<1>1. PICK r, f, N, op : r = req[s] /\ f = r.shares /\ N = Len(receipts) + 1 /\ op = "take_payment"
  OBVIOUS
<1>2. /\ r.op = op /\ r.spread /\ Serving(s, op) /\ Finish(s)
      /\ UNCHANGED <<charges, discounts, carried, returns, refunds, deposits>>
  BY <1>1 DEF WritePayment, Serving
<1>3. TablesTyped /\ Ledger /\ Sound(r) /\ LinesKept /\ OneByOne
  BY <1>1, InvIs DEF Ledger
<1>4. op \in Ops /\ op # "approve_void" /\ op \notin Decisions
  BY <1>1 DEF Ops, Decisions
<1>5. /\ r.amount \in Nat \ {0} /\ N \notin DOMAIN receipts
      /\ TablesTyped'
      /\ DOMAIN receipts' = DOMAIN receipts \cup {N}
      /\ \A c \in DOMAIN receipts : receipts'[c] = receipts[c]
      /\ receipts'[N].amount = r.amount
      /\ receipts'[N].year = r.on
      /\ Issued' = Issued \cup {N}
      /\ \E n, at : PaidIn(f, n, at)
  BY <1>1, PaymentTables
<1>6. PICK n, at : PaidIn(f, n, at)
  BY <1>5
<1>7. /\ TotalPaid' = TotalPaid + r.amount
      /\ \A l : Allocated(l)' = Allocated(l) + (IF l \in DOMAIN f THEN f[l] ELSE 0)
      /\ \A c \in DOMAIN receipts :
            /\ SumRows({i \in DOMAIN rows : rows[i].receipt = c})'
                   = SumRows({i \in DOMAIN rows : rows[i].receipt = c})
            /\ SumRows(PaymentsOf(c))' = SumRows(PaymentsOf(c))
      /\ SumRows(PaymentsOf(N))' = r.amount
  BY <1>1, PaymentMoves
<1>8. /\ Served(op, {s}) /\ raced \subseteq raced' /\ raced' \in SUBSET (Ops \X Ops)
      /\ \A by \in r.overtaken : <<op, by>> \in Remembered => <<op, by>> \in raced'
  BY <1>1, <1>2, <1>4, Finished
<1>9. /\ DOMAIN rows \subseteq DOMAIN rows' /\ \A i \in DOMAIN rows : rows'[i] = rows[i]
      /\ \A i \in DOMAIN rows' \ DOMAIN rows :
            /\ rows'[i].receipt = N /\ rows'[i].amount > 0
            /\ rows'[i].why = "payment" /\ ~rows'[i].reversed
  <2>1. DOMAIN rows' = 1 .. (Len(rows) + n) /\ n \in Nat /\ DOMAIN rows = 1 .. Len(rows)
        /\ Len(rows) \in Nat
    BY <1>3, <1>6, TablesAre DEF PaidIn, Written
  <2>2. ASSUME NEW i \in DOMAIN rows' \ DOMAIN rows
        PROVE  /\ rows'[i].receipt = N /\ rows'[i].amount > 0
               /\ rows'[i].why = "payment" /\ ~rows'[i].reversed
    <3>1. PICK k \in 1 .. n : i = Len(rows) + k
      <4>1. i - Len(rows) \in 1 .. n /\ i = Len(rows) + (i - Len(rows))
        BY <2>1
      <4> QED
        BY <4>1
    <3>2. /\ rows'[i].receipt = N /\ rows'[i].why = "payment" /\ ~rows'[i].reversed
          /\ rows'[i].amount = f[at[k]] /\ at[k] \in DOMAIN f
      BY <1>1, <1>6, <3>1 DEF PaidIn, Written
    <3>3. \A x \in DOMAIN f : f[x] > 0
      BY <1>1, <1>2, <1>3 DEF Sound, Apt
    <3> QED
      BY <3>2, <3>3
  <2>3. \A i \in DOMAIN rows : rows'[i] = rows[i]
    BY <1>6 DEF PaidIn
  <2> QED
    BY <2>1, <2>2, <2>3
<1>10. Grows(op)
  <2>1. ASSUME NEW c \in DOMAIN receipts PROVE Mirrored(c)' = Mirrored(c)
    BY <1>5, <1>9, <2>1 DEF Mirrored
  <2> QED
    BY <1>2, <1>5, <1>9, <2>1 DEF Grows
<1>11. LinesGrow
  BY <1>2, <1>5, <1>8 DEF LinesGrow
<1>12. HandBackVoided => HandBackVoided'
  <2> SUFFICES ASSUME HandBackVoided PROVE HandBackVoided'
    OBVIOUS
  <2>1. PICK i \in DOMAIN rows : rows[i].why \in {"return", "refund"} /\ rows[i].receipt \notin Issued
    BY DEF HandBackVoided
  <2>2. rows[i].receipt # N
    BY <1>3, <1>5, RowsAre
  <2>3. i \in DOMAIN rows' /\ rows'[i].why \in {"return", "refund"} /\ rows'[i].receipt \notin Issued'
    BY <1>5, <1>9, <2>1, <2>2
  <2> QED
    BY <2>3 DEF HandBackVoided
<1>13. PaidIsCollected'
  <2>1. PaidIsCollected
    BY <1>3 DEF Ledger
  <2>2. CASE HandBackVoided
    BY <1>12, <2>2 DEF PaidIsCollected
  <2>3. CASE Raced(Decisions \X {"execute_refund"})
    BY <1>8, <2>3 DEF PaidIsCollected, Raced
  <2>4. CASE TotalPaid = Collected(Issued) - PaidOut
    <3>1. Collected(Issued)' = Collected(Issued) + r.amount /\ Collected(Issued) \in Int
      BY <1>3, <1>5, CollectedMore
    <3>2. PaidOut' = PaidOut /\ PaidOut \in Int
      <4>1. Executed' = Executed
        BY <1>2 DEF Executed
      <4> QED
        BY <1>2, <1>3, <4>1, PaidOutStays, PaidOutTyped
    <3>3. PICK a, b, c, d, e : /\ a = TotalPaid /\ b = Collected(Issued) /\ c = PaidOut
                               /\ d = TotalPaid' /\ e = Collected(Issued)'
      OBVIOUS
    <3>4. d = a + r.amount /\ e = b + r.amount /\ a = b - c
          /\ b \in Int /\ c \in Int /\ r.amount \in Int
      BY <1>5, <1>7, <2>4, <3>1, <3>2, <3>3
    <3>5. d = e - c
      BY <3>4
    <3> QED
      BY <3>2, <3>3, <3>5 DEF PaidIsCollected
  <2> QED
    BY <2>1, <2>2, <2>3, <2>4 DEF PaidIsCollected
<1>14. VoidUnwindsReceipt'
  <2>1. VoidUnwindsReceipt
    BY <1>3 DEF Ledger
  <2>2. CASE Raced(VoidRaces)
    BY <1>8, <2>2 DEF VoidUnwindsReceipt, Raced, VoidRaces, HandingBack
  <2>3. CASE \A c \in DOMAIN receipts \ Issued :
                 SumRows({i \in DOMAIN rows : rows[i].receipt = c}) = 0
    <3>1. ASSUME NEW c \in DOMAIN receipts' \ Issued'
          PROVE  SumRows({i \in DOMAIN rows : rows[i].receipt = c})' = 0
      <4>1. c \in DOMAIN receipts \ Issued
        BY <1>5
      <4> QED
        BY <1>7, <2>3, <4>1
    <3> QED
      BY <3>1 DEF VoidUnwindsReceipt
  <2> QED
    BY <2>1, <2>2, <2>3 DEF VoidUnwindsReceipt
<1>15. RowsTell'
  <2>1. RowsTell
    BY <1>3 DEF Ledger
  <2>2. ASSUME NEW i \in DOMAIN rows'
        PROVE  /\ rows'[i].why = "payment" => rows'[i].amount > 0
               /\ rows'[i].why \in {"return", "refund"} => rows'[i].amount < 0
               /\ rows'[i].why = "void" \/ rows'[i].reversed => rows'[i].receipt \notin Issued'
    <3>1. CASE i \in DOMAIN rows
      <4>1. rows[i].receipt # N
        BY <1>3, <1>5, <3>1, RowsAre
      <4> QED
        BY <1>5, <1>9, <2>1, <3>1, <4>1 DEF RowsTell
    <3>2. CASE i \notin DOMAIN rows
      BY <1>9, <3>2
    <3> QED
      BY <3>1, <3>2
  <2> QED
    BY <2>2 DEF RowsTell
<1>16. ReceiptsWhole'
  <2>1. ReceiptsWhole
    BY <1>3 DEF Ledger
  <2>2. ASSUME NEW c \in DOMAIN receipts' PROVE SumRows(PaymentsOf(c))' = receipts'[c].amount
    <3>1. CASE c = N
      BY <1>5, <1>7, <3>1
    <3>2. CASE c # N
      BY <1>5, <1>7, <2>1, <3>2 DEF ReceiptsWhole
    <3> QED
      BY <3>1, <3>2
  <2> QED
    BY <2>2 DEF ReceiptsWhole
<1>17. DepositsTell' /\ DepositSettledOnce'
  <2>1. DepositSettledOnce /\ DepositsTell
    BY <1>3 DEF Ledger
  <2> QED
    BY <1>2, <1>8, <2>1 DEF DepositSettledOnce, DepositsTell, Raced
<1>18. Ledger'
  BY <1>5, <1>13, <1>14, <1>15, <1>16, <1>17 DEF Ledger
<1>19. LinesKept'
  <2>1. CASE HandBackVoided \/ YearsRaced
    BY <1>11, <1>12, <2>1, YearsStayRaced DEF LinesKept
  <2>2. CASE "take_payment" \in r.overtaken /\ \E c \in DOMAIN receipts : receipts[c].year # r.on
    <3>1. <<op, "take_payment">> \in raced'
      <4>1. <<op, "take_payment">> \in Remembered
        BY <1>1 DEF Remembered
      <4> QED
        BY <1>8, <2>2, <4>1
    <3>2. PICK c \in DOMAIN receipts : receipts[c].year # r.on
      BY <2>2
    <3>3. /\ c \in DOMAIN receipts' /\ N \in DOMAIN receipts'
          /\ receipts'[c].year # receipts'[N].year
      BY <1>5, <3>2
    <3> QED
      BY <1>1, <3>1, <3>3 DEF LinesKept, YearsRaced, Raced
  <2>3. CASE /\ \A l \in DOMAIN charges : Allocated(l) <= charges[l].gross
             /\ \A t \in Sessions : Fits(req[t])
             /\ \A l \in DOMAIN f \ {0} : Allocated(l) + f[l] <= charges[l].gross
    <3>1. \A l \in DOMAIN charges : Allocated(l)' <= charges[l].gross
      <4>1. ASSUME NEW l \in DOMAIN charges PROVE Allocated(l)' <= charges[l].gross
        <5>1. PICK a, b, g : a = Allocated(l) /\ b = Allocated(l)' /\ g = charges[l].gross
          OBVIOUS
        <5>2. a \in Int /\ g \in Int
          BY <1>3, <5>1, AmountsTyped, RowsAre
        <5>3. CASE l \in DOMAIN f
          <6>1. l # 0
            BY <1>3, TablesAre
          <6>2. b = a + f[l] /\ a + f[l] <= g
            BY <1>7, <2>3, <5>1, <5>3, <6>1
          <6> QED
            BY <5>1, <6>2
        <5>4. CASE l \notin DOMAIN f
          <6>1. b = a + 0 /\ a <= g
            BY <1>7, <2>3, <5>1, <5>4
          <6>2. b <= g
            BY <5>2, <6>1
          <6> QED
            BY <5>1, <6>2
        <5> QED
          BY <5>3, <5>4
      <4> QED
        BY <4>1
    <3>2. ASSUME NEW t \in Sessions PROVE Fits(req[t])'
      <4>1. PICK q, p : q = req'[t] /\ p = req[t]
        OBVIOUS
      <4>2. Fits(q)'
        <5>1. CASE t = s
          <6>1. q = Idle
            BY <1>4, <1>8, <4>1, <5>1, RequestsAfter
          <6> QED
            BY <6>1, IdleIs DEF Fits
        <5>2. CASE t # s
          <6>1. PICK more : more = IF <<p.op, op>> \in Watched THEN {op} ELSE {}
            OBVIOUS
          <6>2. Resembles(q, p) /\ q.overtaken = p.overtaken \cup more
            BY <1>4, <1>8, <4>1, <5>2, <6>1, RequestsAfter
          <6>3. CASE ~(p.op = "take_payment" /\ p.spread)
            BY <6>2, <6>3 DEF Fits, Resembles
          <6>4. CASE p.op = "take_payment" /\ p.spread
            <7>1. p.on # r.on
              BY <1>1, <1>2, <1>3, <4>1, <5>2, <6>4 DEF OneByOne, Allocating, Serving
            <7>2. "take_payment" \in q.overtaken
              BY <1>1, <6>1, <6>2, <6>4 DEF Watched
            <7>3. N \in DOMAIN receipts' /\ receipts'[N].year # q.on
              BY <1>5, <6>2, <7>1 DEF Resembles
            <7> QED
              BY <7>2, <7>3 DEF Fits
          <6> QED
            BY <6>3, <6>4
        <5> QED
          BY <5>1, <5>2
      <4> QED
        BY <4>1, <4>2 DEF Fits
    <3> QED
      BY <1>2, <3>1, <3>2 DEF LinesKept
  <2>4. ASSUME ~HandBackVoided, ~YearsRaced
        PROVE  /\ \A l \in DOMAIN charges : Allocated(l) <= charges[l].gross
               /\ \A t \in Sessions : Fits(req[t])
               /\ \/ "take_payment" \in r.overtaken /\ \E c \in DOMAIN receipts : receipts[c].year # r.on
                  \/ \A l \in DOMAIN f \ {0} : Allocated(l) + f[l] <= charges[l].gross
    <3>1. /\ \A l \in DOMAIN charges : Allocated(l) <= charges[l].gross
          /\ \A t \in Sessions : Fits(req[t])
      BY <1>3, <2>4 DEF LinesKept
    <3>2. Fits(r)
      BY <1>1, <3>1
    <3> QED
      BY <1>1, <1>2, <3>1, <3>2 DEF Fits
  <2> QED
    BY <2>1, <2>2, <2>3, <2>4
<1> QED
  BY <1>4, <1>8, <1>10, <1>18, <1>19, CommitKeeps

-----------------------------------------------------------------------------
(* Money handed back. *)

HandingOut(s, why) ==
    /\ req[s].op \in HandingBack /\ req[s].spread
    /\ Covered(req[s].amount, req[s].shares)
    /\ rows' = rows \o Reversals(req[s].shares, why)
    /\ UNCHANGED <<charges, receipts>>

LEMMA HandedOut ==
    ASSUME Inv, NEW s \in Sessions, NEW why \in {"return", "refund"}, HandingOut(s, why),
           NEW f, f = req[s].shares
    PROVE  /\ IsFiniteSet(DOMAIN f) /\ DOMAIN f \subseteq DOMAIN rows
           /\ \A x \in DOMAIN f : f[x] \in Int /\ f[x] < 0
           /\ SumFunctionOnSet(f, DOMAIN f) = -req[s].amount /\ req[s].amount \in Nat
           /\ \E n, at : TurnedBack(f, why, rows, n, at)
           /\ Issued' = Issued
<1>1. PICK q : q = req[s]
  OBVIOUS
<1>2. q.op \in HandingBack /\ q.spread /\ Covered(q.amount, f) /\ Sound(q)
  BY <1>1, InvIs DEF HandingOut
<1>3. TablesTyped
  BY InvTables
<1>4. /\ DOMAIN f \subseteq DOMAIN rows
      /\ \A x \in DOMAIN f : f[x] \in Int \ {0} /\ f[x] < 0
      /\ q.amount \in Nat
  BY <1>1, <1>2 DEF Sound, Apt, IsRequest
<1>5. Joined(rows', rows, Reversals(f, why))
  BY DEF HandingOut, Joined
<1>6. Keeps(rows)
  BY <1>3 DEF Keeps, TablesTyped
<1>7. why \in {"void", "return", "refund"}
  OBVIOUS
<1>8. IsFiniteSet(DOMAIN f) /\ \E n, at : TurnedBack(f, why, rows, n, at)
  <2>1. PICK old : old = rows
    OBVIOUS
  <2>2. Keeps(old) /\ Joined(rows', old, Reversals(f, why))
    BY <1>5, <1>6, <2>1
  <2>3. IsFiniteSet(DOMAIN f) /\ \E n, at : TurnedBack(f, why, old, n, at)
    BY <1>3, <1>4, <1>7, <2>2, ReversalWritten
  <2> QED
    BY <2>1, <2>3
<1>9. Issued' = Issued
  BY DEF HandingOut, Issued
<1>10. SumFunctionOnSet(f, DOMAIN f) = -q.amount
  BY <1>2, SumIsOnSet DEF Covered
<1> QED
  BY <1>1, <1>4, <1>8, <1>9, <1>10

LEMMA RowsHandedOut ==
    ASSUME TablesTyped, NEW f, DOMAIN f \subseteq DOMAIN rows,
           \A x \in DOMAIN f : f[x] \in Int /\ f[x] < 0,
           NEW why, NEW n, NEW at, TurnedBack(f, why, rows, n, at)
    PROVE  /\ DOMAIN rows \subseteq DOMAIN rows' /\ \A i \in DOMAIN rows : rows'[i] = rows[i]
           /\ \A i \in DOMAIN rows' \ DOMAIN rows :
                 /\ rows'[i].why = why /\ ~rows'[i].reversed /\ rows'[i].amount < 0
                 /\ \E x \in DOMAIN f : /\ rows'[i].receipt = rows[x].receipt
                                        /\ rows'[i].line = rows[x].line
           /\ \A x \in DOMAIN f : \E i \in DOMAIN rows' :
                 rows'[i].why = why /\ rows'[i].receipt = rows[x].receipt
<1>1. DOMAIN rows' = 1 .. (Len(rows) + n) /\ n \in Nat /\ DOMAIN rows = 1 .. Len(rows)
      /\ Len(rows) \in Nat
  BY TablesAre DEF TurnedBack, Written
<1>2. ASSUME NEW i \in DOMAIN rows' \ DOMAIN rows
      PROVE  /\ rows'[i].why = why /\ ~rows'[i].reversed /\ rows'[i].amount < 0
             /\ \E x \in DOMAIN f : /\ rows'[i].receipt = rows[x].receipt
                                    /\ rows'[i].line = rows[x].line
  <2>1. PICK k \in 1 .. n : i = Len(rows) + k
    <3>1. i - Len(rows) \in 1 .. n /\ i = Len(rows) + (i - Len(rows))
      BY <1>1
    <3> QED
      BY <3>1
  <2>2. /\ rows'[i].why = why /\ ~rows'[i].reversed
        /\ rows'[i].receipt = rows[at[k]].receipt /\ rows'[i].line = rows[at[k]].line
        /\ rows'[i].amount = f[at[k]] /\ at[k] \in DOMAIN f
    BY <2>1 DEF TurnedBack, Written
  <2> QED
    BY <2>2
<1>3. ASSUME NEW x \in DOMAIN f
      PROVE  \E i \in DOMAIN rows' : rows'[i].why = why /\ rows'[i].receipt = rows[x].receipt
  <2>1. PICK k \in 1 .. n : at[k] = x
    BY DEF TurnedBack, Written
  <2>2. Len(rows) + k \in DOMAIN rows'
    BY <1>1
  <2>3. rows'[Len(rows) + k].why = why /\ rows'[Len(rows) + k].receipt = rows[x].receipt
    BY <2>1 DEF TurnedBack
  <2> QED
    BY <2>2, <2>3
<1>4. \A i \in DOMAIN rows : i \in DOMAIN rows' /\ rows'[i] = rows[i]
  BY <1>1 DEF TurnedBack
<1> QED
  BY <1>2, <1>3, <1>4

SumStays(r) ==
    SumRows({i \in DOMAIN rows : rows[i].receipt = r})'
        = SumRows({i \in DOMAIN rows : rows[i].receipt = r})

(***************************************************************************)
(* What is handed back leaves the lines and the receipts it was taken on.  *)
(***************************************************************************)
LEMMA HandBackMoves ==
    ASSUME Inv, TablesTyped', NEW s \in Sessions, NEW why \in {"return", "refund"},
           HandingOut(s, why), NEW f, f = req[s].shares
    PROVE  /\ (\A x \in DOMAIN f : rows[x].receipt \in Issued)
                  => TotalPaid' = TotalPaid - req[s].amount
           /\ ~HandBackVoided' => TotalPaid' = TotalPaid - req[s].amount
           /\ \A l : Allocated(l)' <= Allocated(l)
           /\ \A r : SumRows(PaymentsOf(r))' = SumRows(PaymentsOf(r))
           /\ \A r : (\A x \in DOMAIN f : rows[x].receipt # r) => SumStays(r)
<1>1. PICK a : a = req[s].amount
  OBVIOUS
<1>2. /\ IsFiniteSet(DOMAIN f) /\ DOMAIN f \subseteq DOMAIN rows
      /\ \A x \in DOMAIN f : f[x] \in Int /\ f[x] < 0
      /\ SumFunctionOnSet(f, DOMAIN f) = -a /\ a \in Nat
      /\ \E n, at : TurnedBack(f, why, rows, n, at)
      /\ Issued' = Issued
  BY <1>1, HandedOut
<1>3. PICK n, at : TurnedBack(f, why, rows, n, at)
  BY <1>2
<1>4. /\ Written(f, n, at)
      /\ \A k \in 1 .. n : /\ at[k] \in DOMAIN f
                           /\ rows'[Len(rows) + k].receipt = rows[at[k]].receipt
                           /\ rows'[Len(rows) + k].line = rows[at[k]].line
                           /\ rows'[Len(rows) + k].why = why
  BY <1>3 DEF TurnedBack, Written
<1>5. TablesTyped
  BY InvTables
<1>6. ASSUME NEW Rs, NEW Ls, NEW Ws
      PROVE  \E P \in SUBSET DOMAIN f :
                /\ P = {x \in DOMAIN f : rows[x].receipt \in Rs /\ rows[x].line \in Ls /\ why \in Ws}
                /\ Money(Rs, Ls, Ws)' = Money(Rs, Ls, Ws) + SumFunctionOnSet(f, P)
                /\ SumFunctionOnSet(f, P) \in Int /\ SumFunctionOnSet(f, P) <= 0
                /\ Money(Rs, Ls, Ws) \in Int
  <2>1. PICK P : P = {x \in DOMAIN f : rows[x].receipt \in Rs /\ rows[x].line \in Ls /\ why \in Ws}
    OBVIOUS
  <2>2. P \in SUBSET DOMAIN f
    BY <2>1
  <2>3. \A k \in 1 .. n : (/\ rows'[Len(rows) + k].receipt \in Rs
                           /\ rows'[Len(rows) + k].line \in Ls
                           /\ rows'[Len(rows) + k].why \in Ws) <=> at[k] \in P
    BY <1>4, <2>1
  <2>4. Money(Rs, Ls, Ws)' = Money(Rs, Ls, Ws) + SumFunctionOnSet(f, P)
    <3>1. IsFiniteSet(DOMAIN f) /\ Written(f, n, at) /\ \A x \in DOMAIN f : f[x] \in Int
      BY <1>2, <1>4
    <3> QED
      BY <1>5, <2>2, <2>3, <3>1, MoneyWritten
  <2>5. IsFiniteSet(P) /\ \A x \in P : f[x] \in Int /\ f[x] <= 0
    BY <1>2, <2>2, FS_Subset
  <2>6. SumFunctionOnSet(f, P) \in Int /\ SumFunctionOnSet(f, P) <= 0
    BY <2>5, SumNotAbove
  <2>7. Money(Rs, Ls, Ws) \in Int
    BY <1>5, MoneyTyped
  <2> QED
    BY <2>1, <2>2, <2>4, <2>6, <2>7
<1>7. PICK R, W, one : R = Issued' /\ W = Whys /\ one = {"payment"}
  OBVIOUS
<1>8. /\ TotalPaid' = Money(R, Nat, W)'
      /\ \A l : Allocated(l)' = Money(R, {l}, W)'
      /\ \A r : SumRows({i \in DOMAIN rows : rows[i].receipt = r})' = Money({r}, Nat, W)'
      /\ \A r : SumRows(PaymentsOf(r))' = Money({r}, Nat, one)'
  <2>1. \A Ls : Money(R, Ls, Whys)' = Money(R, Ls, W)'
    BY <1>7 DEF Money, RowsIn, Whys
  <2>2. \A r : Money({r}, Nat, Whys)' = Money({r}, Nat, W)'
    BY <1>7 DEF Money, RowsIn, Whys
  <2>3. \A r : Money({r}, Nat, {"payment"})' = Money({r}, Nat, one)'
    BY <1>7 DEF Money, RowsIn
  <2>4. /\ TotalPaid' = Money(R, Nat, Whys)'
        /\ \A l : Allocated(l)' = Money(R, {l}, Whys)'
        /\ \A r : SumRows({i \in DOMAIN rows : rows[i].receipt = r})' = Money({r}, Nat, Whys)'
        /\ \A r : SumRows(PaymentsOf(r))' = Money({r}, Nat, {"payment"})'
    BY <1>7, MoneyIsNext
  <2> QED
    BY <2>1, <2>2, <2>3, <2>4
<1>9. /\ TotalPaid = Money(R, Nat, W)
      /\ \A l : Allocated(l) = Money(R, {l}, W)
      /\ \A r : SumRows({i \in DOMAIN rows : rows[i].receipt = r}) = Money({r}, Nat, W)
      /\ \A r : SumRows(PaymentsOf(r)) = Money({r}, Nat, one)
  <2>1. R = Issued
    BY <1>2, <1>7
  <2> QED
    BY <1>5, <1>7, <2>1, SumsAreMoney
<1>10. why \in W /\ why \notin one
  BY <1>7 DEF Whys
<1>11. ASSUME \A x \in DOMAIN f : rows[x].receipt \in Issued PROVE TotalPaid' = TotalPaid - a
  <2>1. PICK P \in SUBSET DOMAIN f :
            /\ P = {x \in DOMAIN f : rows[x].receipt \in R /\ rows[x].line \in Nat /\ why \in W}
            /\ Money(R, Nat, W)' = Money(R, Nat, W) + SumFunctionOnSet(f, P)
            /\ Money(R, Nat, W) \in Int
    BY <1>6
  <2>2. \A x \in DOMAIN f : rows[x].receipt \in R
    BY <1>2, <1>7, <1>11
  <2>3. P = DOMAIN f
    BY <1>2, <1>5, <1>10, <2>1, <2>2, RowsAre
  <2>4. PICK m, k : m = Money(R, Nat, W) /\ k = Money(R, Nat, W)'
    OBVIOUS
  <2>5. k = m + (-a) /\ m \in Int
    BY <1>2, <2>1, <2>3, <2>4
  <2>6. k = m - a
    BY <1>2, <2>5
  <2> QED
    BY <1>8, <1>9, <2>4, <2>6
<1>16. ASSUME ~HandBackVoided' PROVE TotalPaid' = TotalPaid - a
  <2>1. ASSUME NEW x \in DOMAIN f PROVE rows[x].receipt \in Issued
    <3>1. PICK i \in DOMAIN rows' : rows'[i].why = why /\ rows'[i].receipt = rows[x].receipt
      BY <1>2, <1>3, <1>5, RowsHandedOut
    <3>2. rows'[i].receipt \in Issued'
      BY <1>16, <3>1 DEF HandBackVoided
    <3> QED
      BY <1>2, <3>1, <3>2
  <2> QED
    BY <1>11, <2>1
<1>12. ASSUME NEW l PROVE Allocated(l)' <= Allocated(l)
  <2>1. PICK P \in SUBSET DOMAIN f :
            /\ Money(R, {l}, W)' = Money(R, {l}, W) + SumFunctionOnSet(f, P)
            /\ SumFunctionOnSet(f, P) \in Int /\ SumFunctionOnSet(f, P) <= 0
            /\ Money(R, {l}, W) \in Int
    BY <1>6
  <2>2. PICK m, k, d : /\ m = Money(R, {l}, W) /\ k = Money(R, {l}, W)'
                       /\ d = SumFunctionOnSet(f, P)
    OBVIOUS
  <2>3. k = m + d /\ m \in Int /\ d \in Int /\ d <= 0
    BY <2>1, <2>2
  <2>4. k <= m
    BY <2>3
  <2> QED
    BY <1>8, <1>9, <2>2, <2>4
<1>13. SumFunctionOnSet(f, {}) = 0
  BY SumFirst, FS_EmptySet
<1>14. ASSUME NEW r PROVE SumRows(PaymentsOf(r))' = SumRows(PaymentsOf(r))
  <2>0. PICK Rs : Rs = {r}
    OBVIOUS
  <2>1. PICK P \in SUBSET DOMAIN f :
            /\ P = {x \in DOMAIN f : rows[x].receipt \in Rs /\ rows[x].line \in Nat /\ why \in one}
            /\ Money(Rs, Nat, one)' = Money(Rs, Nat, one) + SumFunctionOnSet(f, P)
            /\ Money(Rs, Nat, one) \in Int
    BY <1>6
  <2>2. P = {}
    BY <1>10, <2>1
  <2>3. Money(Rs, Nat, one)' = Money(Rs, Nat, one)
    <3>1. PICK m, k : m = Money(Rs, Nat, one) /\ k = Money(Rs, Nat, one)'
      OBVIOUS
    <3>2. m \in Int /\ k = m + 0
      BY <1>13, <2>1, <2>2, <3>1
    <3>3. k = m
      BY <3>2
    <3> QED
      BY <3>1, <3>3
  <2> QED
    BY <1>8, <1>9, <2>0, <2>3
<1>15. ASSUME NEW r, \A x \in DOMAIN f : rows[x].receipt # r
       PROVE  SumStays(r)
  <2>0. PICK Rs : Rs = {r}
    OBVIOUS
  <2>1. PICK P \in SUBSET DOMAIN f :
            /\ P = {x \in DOMAIN f : rows[x].receipt \in Rs /\ rows[x].line \in Nat /\ why \in W}
            /\ Money(Rs, Nat, W)' = Money(Rs, Nat, W) + SumFunctionOnSet(f, P)
            /\ Money(Rs, Nat, W) \in Int
    BY <1>6
  <2>2. P = {}
    BY <1>15, <2>0, <2>1
  <2>3. Money(Rs, Nat, W)' = Money(Rs, Nat, W)
    <3>1. PICK m, k : m = Money(Rs, Nat, W) /\ k = Money(Rs, Nat, W)'
      OBVIOUS
    <3>2. m \in Int /\ k = m + 0
      BY <1>13, <2>1, <2>2, <3>1
    <3>3. k = m
      BY <3>2
    <3> QED
      BY <3>1, <3>3
  <2> QED
    BY <1>8, <1>9, <2>0, <2>3 DEF SumStays
<1> QED
  BY <1>1, <1>11, <1>12, <1>14, <1>15, <1>16

LEMMA HandBackKeeps ==
    ASSUME Inv, TablesTyped', NEW s \in Sessions, NEW op \in HandingBack, Serving(s, op), Finish(s),
           NEW why \in {"return", "refund"}, HandingOut(s, why),
           UNCHANGED <<discounts, carried, deposits>>,
           \/ PaidOut' = PaidOut + req[s].amount
           \/ Raced(Decisions \X {"execute_refund"})',
           Grows(op)
    PROVE  Inv'
<1>1. PICK r, f, a : r = req[s] /\ f = r.shares /\ a = r.amount
  OBVIOUS
<1>2. TablesTyped /\ Ledger /\ Sound(r)
  BY <1>1, InvIs DEF Ledger
<1>3. op \in Ops /\ r.op = op /\ r.spread
  BY <1>1 DEF HandingBack, Ops, Decisions, Serving, HandingOut
<1>4. UNCHANGED <<charges, receipts>> /\ Issued' = Issued
  BY DEF HandingOut, Issued
<1>5. /\ DOMAIN f \subseteq DOMAIN rows
      /\ \A x \in DOMAIN f : f[x] \in Int /\ f[x] < 0
      /\ a \in Nat
      /\ \E n, at : TurnedBack(f, why, rows, n, at)
  BY <1>1, HandedOut
<1>6. /\ DOMAIN rows \subseteq DOMAIN rows' /\ \A i \in DOMAIN rows : rows'[i] = rows[i]
      /\ \A i \in DOMAIN rows' \ DOMAIN rows :
            /\ rows'[i].why = why /\ ~rows'[i].reversed /\ rows'[i].amount < 0
            /\ \E x \in DOMAIN f : rows'[i].receipt = rows[x].receipt
  <2>1. PICK n, at : TurnedBack(f, why, rows, n, at)
    BY <1>5
  <2> QED
    BY <1>2, <1>5, <2>1, RowsHandedOut
<1>7. /\ ~HandBackVoided' => TotalPaid' = TotalPaid - a
      /\ \A l : Allocated(l)' <= Allocated(l)
      /\ \A c : SumRows(PaymentsOf(c))' = SumRows(PaymentsOf(c))
      /\ \A c : (\A x \in DOMAIN f : rows[x].receipt # c) => SumStays(c)
  <2>1. PICK g : g = req[s].shares
    OBVIOUS
  <2>2. /\ ~HandBackVoided' => TotalPaid' = TotalPaid - req[s].amount
        /\ \A l : Allocated(l)' <= Allocated(l)
        /\ \A c : SumRows(PaymentsOf(c))' = SumRows(PaymentsOf(c))
    BY <2>1, HandBackMoves
  <2>3. \A c : (\A x \in DOMAIN g : rows[x].receipt # c) => SumStays(c)
    BY <2>1, HandBackMoves
  <2>4. g = f /\ req[s].amount = a
    BY <1>1, <2>1
  <2> QED
    BY <2>2, <2>3, <2>4
<1>8. /\ Served(op, {s}) /\ raced \subseteq raced' /\ raced' \in SUBSET (Ops \X Ops)
      /\ \A by \in r.overtaken : <<op, by>> \in Remembered => <<op, by>> \in raced'
  BY <1>1, <1>3, Finished
<1>9. HandBackVoided => HandBackVoided'
  <2> SUFFICES ASSUME HandBackVoided PROVE HandBackVoided'
    OBVIOUS
  <2>1. PICK i \in DOMAIN rows : rows[i].why \in {"return", "refund"} /\ rows[i].receipt \notin Issued
    BY DEF HandBackVoided
  <2>2. i \in DOMAIN rows' /\ rows'[i].why \in {"return", "refund"} /\ rows'[i].receipt \notin Issued'
    BY <1>4, <1>6, <2>1
  <2> QED
    BY <2>2 DEF HandBackVoided
<1>10. LinesKept'
  <2>1. LinesGrow
    BY <1>4, <1>8 DEF LinesGrow
  <2>2. DOMAIN charges' \ DOMAIN charges = {}
    BY <1>4
  <2>3. \A l \in DOMAIN charges' \ DOMAIN charges : Allocated(l)' <= charges'[l].gross
    BY <2>2
  <2> QED
    BY <1>3, <1>7, <1>8, <1>9, <2>1, <2>3, LinesStay
<1>11. PaidIsCollected'
  <2>1. PaidIsCollected
    BY <1>2 DEF Ledger
  <2>2. CASE HandBackVoided'
    BY <2>2 DEF PaidIsCollected
  <2>3. CASE Raced(Decisions \X {"execute_refund"})'
    BY <2>3 DEF PaidIsCollected
  <2>4. CASE Raced(Decisions \X {"execute_refund"})
    BY <1>8, <2>4 DEF PaidIsCollected, Raced
  <2>5. CASE /\ ~HandBackVoided' /\ TotalPaid = Collected(Issued) - PaidOut
             /\ PaidOut' = PaidOut + a
    <3>1. Collected(Issued)' = Collected(Issued)
      BY <1>4 DEF Collected
    <3>2. PaidOut \in Int
      BY <1>2, PaidOutTyped
    <3>3. PICK t, c, p, t2, p2 : /\ t = TotalPaid /\ c = Collected(Issued) /\ p = PaidOut
                                 /\ t2 = TotalPaid' /\ p2 = PaidOut'
      OBVIOUS
    <3>4. t = c - p /\ t2 = t - a /\ p2 = p + a /\ p \in Int /\ a \in Int
      BY <1>5, <1>7, <2>5, <3>2, <3>3
    <3>5. c \in Int
      BY <1>2, <3>3, CollectedTyped
    <3>6. t2 = c - p2
      BY <3>4, <3>5
    <3>7. TotalPaid' = Collected(Issued)' - PaidOut'
      BY <3>1, <3>3, <3>6
    <3> QED
      BY <3>7 DEF PaidIsCollected
  <2> QED
    BY <1>1, <1>9, <2>1, <2>2, <2>3, <2>4, <2>5 DEF PaidIsCollected
<1>12. VoidUnwindsReceipt'
  <2>1. VoidUnwindsReceipt
    BY <1>2 DEF Ledger
  <2>2. CASE Raced(VoidRaces)
    BY <1>8, <2>2 DEF VoidUnwindsReceipt, Raced, VoidRaces, HandingBack
  <2>3. CASE "approve_void" \in r.overtaken
    <3>1. <<op, "approve_void">> \in VoidRaces
      BY DEF VoidRaces
    <3>2. <<op, "approve_void">> \in raced'
      BY <1>8, <2>3, <3>1 DEF Remembered
    <3> QED
      BY <3>1, <3>2 DEF VoidUnwindsReceipt, Raced, VoidRaces, HandingBack
  <2>4. CASE /\ "approve_void" \notin r.overtaken
             /\ \A c \in DOMAIN receipts \ Issued :
                   SumRows({i \in DOMAIN rows : rows[i].receipt = c}) = 0
    <3>1. \A x \in DOMAIN f : rows[x].receipt \in Issued
      BY <1>1, <1>2, <1>3, <2>4 DEF Sound, ReceiptSeen
    <3>2. ASSUME NEW c \in DOMAIN receipts' \ Issued'
          PROVE  SumRows({i \in DOMAIN rows : rows[i].receipt = c})' = 0
      <4>1. c \in DOMAIN receipts \ Issued
        BY <1>4
      <4>2. \A x \in DOMAIN f : rows[x].receipt # c
        BY <3>1, <4>1
      <4> QED
        BY <1>7, <2>4, <4>1, <4>2 DEF SumStays
    <3> QED
      BY <3>2 DEF VoidUnwindsReceipt
  <2> QED
    BY <2>1, <2>2, <2>3, <2>4 DEF VoidUnwindsReceipt
<1>13. RowsTell'
  <2>1. RowsTell
    BY <1>2 DEF Ledger
  <2>2. ASSUME NEW i \in DOMAIN rows'
        PROVE  /\ rows'[i].why = "payment" => rows'[i].amount > 0
               /\ rows'[i].why \in {"return", "refund"} => rows'[i].amount < 0
               /\ rows'[i].why = "void" \/ rows'[i].reversed => rows'[i].receipt \notin Issued'
    <3>1. CASE i \in DOMAIN rows
      BY <1>4, <1>6, <2>1, <3>1 DEF RowsTell
    <3>2. CASE i \notin DOMAIN rows
      <4>1. rows'[i].why = why /\ ~rows'[i].reversed /\ rows'[i].amount < 0
        BY <1>6, <3>2
      <4>2. why # "payment" /\ why # "void"
        OBVIOUS
      <4> QED
        BY <4>1, <4>2
    <3> QED
      BY <3>1, <3>2
  <2> QED
    BY <2>2 DEF RowsTell
<1>14. ReceiptsWhole'
  <2>1. ReceiptsWhole
    BY <1>2 DEF Ledger
  <2> QED
    BY <1>4, <1>7, <2>1 DEF ReceiptsWhole
<1>15. DepositsTell' /\ DepositSettledOnce'
  <2>1. DepositSettledOnce /\ DepositsTell
    BY <1>2 DEF Ledger
  <2> QED
    BY <1>8, <2>1 DEF DepositSettledOnce, DepositsTell, Raced
<1>16. Ledger'
  BY <1>11, <1>12, <1>13, <1>14, <1>15 DEF Ledger
<1> QED
  BY <1>3, <1>8, <1>10, <1>16, CommitKeeps

(***************************************************************************)
(* What a hand-back leaves of the types of the rows.                       *)
(***************************************************************************)
LEMMA HandBackTyped ==
    ASSUME Inv, NEW s \in Sessions, NEW why \in {"return", "refund"}, HandingOut(s, why),
           UNCHANGED <<discounts, carried, deposits>>,
           returns' \in Seq(Nat \ {0}), refunds' \in Seq(Refund)
    PROVE  TablesTyped'
<1>1. PICK f : f = req[s].shares
  OBVIOUS
<1>2. TablesTyped /\ UNCHANGED <<charges, receipts>>
  BY InvTables DEF HandingOut
<1>3. /\ DOMAIN f \subseteq DOMAIN rows
      /\ \A x \in DOMAIN f : f[x] \in Int /\ f[x] < 0
      /\ \E n, at : TurnedBack(f, why, rows, n, at)
  BY <1>1, HandedOut
<1>4. PICK n, at : TurnedBack(f, why, rows, n, at)
  BY <1>3
<1>5. rows' \in Seq(Allocation)
  BY <1>4 DEF TurnedBack
<1>6. ASSUME NEW i \in DOMAIN rows'
      PROVE  rows'[i].receipt \in DOMAIN receipts /\ rows'[i].line \in DOMAIN charges \cup {0}
  <2>1. /\ \A j \in DOMAIN rows : rows'[j] = rows[j]
        /\ \A j \in DOMAIN rows' \ DOMAIN rows :
              \E x \in DOMAIN f : /\ rows'[j].receipt = rows[x].receipt
                                  /\ rows'[j].line = rows[x].line
    BY <1>2, <1>3, <1>4, RowsHandedOut
  <2>2. PICK j \in DOMAIN rows : rows'[i].receipt = rows[j].receipt /\ rows'[i].line = rows[j].line
    BY <1>3, <2>1
  <2>3. rows[j].receipt \in DOMAIN receipts /\ rows[j].line \in DOMAIN charges \cup {0}
    BY <1>2, RowsAre
  <2> QED
    BY <2>2, <2>3
<1> QED
  BY <1>2, <1>5, <1>6 DEF TablesTyped

LEMMA HandBackGrows ==
    ASSUME Inv, NEW s \in Sessions, NEW why \in {"return", "refund"}, HandingOut(s, why)
    PROVE  /\ DOMAIN rows \subseteq DOMAIN rows'
           /\ \A i \in DOMAIN rows : /\ rows'[i].receipt = rows[i].receipt
                                     /\ rows'[i].amount = rows[i].amount
<1>1. PICK f : f = req[s].shares
  OBVIOUS
<1>2. /\ DOMAIN f \subseteq DOMAIN rows
      /\ \A x \in DOMAIN f : f[x] \in Int /\ f[x] < 0
      /\ \E n, at : TurnedBack(f, why, rows, n, at)
  BY <1>1, HandedOut
<1>3. PICK n, at : TurnedBack(f, why, rows, n, at)
  BY <1>2
<1> QED
  BY <1>2, <1>3, InvTables, RowsHandedOut

LEMMA WriteReturnCreditKeeps ==
    ASSUME Inv, NEW s \in Sessions, WriteReturnCredit(s)
    PROVE  Inv'
<1>1. PICK op, why, a : op = "return_credit" /\ why = "return" /\ a = req[s].amount
  OBVIOUS
<1>2. /\ Serving(s, op) /\ Finish(s) /\ returns' = Append(returns, a)
      /\ UNCHANGED <<charges, receipts, discounts, carried, refunds, deposits>>
  BY <1>1 DEF WriteReturnCredit
<1>3. op \in HandingBack /\ why \in {"return", "refund"}
  BY <1>1 DEF HandingBack
<1>4. HandingOut(s, why)
  BY <1>1, <1>3 DEF HandingOut, WriteReturnCredit, Serving
<1>5. TablesTyped /\ Sound(req[s])
  BY InvIs DEF Ledger
<1>6. a \in Nat \ {0}
  BY <1>1, <1>2, <1>5 DEF Sound, IsRequest, Apt, Serving
<1>7. PICK table, after, m : table = returns /\ after = Append(table, a) /\ m = Len(table) + 1
  OBVIOUS
<1>8. /\ after \in Seq(Nat \ {0}) /\ DOMAIN after = DOMAIN table \cup {m} /\ m \notin DOMAIN table
      /\ \A i \in DOMAIN table : after[i] = table[i]
      /\ after[m] = a /\ DOMAIN table = 1 .. Len(table) /\ Len(table) \in Nat
      /\ table \in Seq(Nat \ {0})
  <2>1. table \in Seq(Nat \ {0})
    BY <1>5, <1>7 DEF TablesTyped
  <2> QED
    BY <1>6, <1>7, <2>1, RowAdded
<1>9. returns' = after /\ returns = table
  BY <1>2, <1>7
<1>10. TablesTyped'
  <2>1. refunds' \in Seq(Refund)
    BY <1>2, <1>5 DEF TablesTyped
  <2> QED
    BY <1>2, <1>3, <1>4, <1>8, <1>9, <2>1, HandBackTyped
<1>11. PaidOut' = PaidOut + a
  <2>1. IsFiniteSet(DOMAIN table)
    BY <1>8, FS_Interval
  <2>2. \A i \in DOMAIN table : table[i] \in Int
    BY <1>8, LenProperties
  <2>3. \A i \in DOMAIN table \cup {m} : after[i] \in Int
    BY <1>6, <1>8, <2>2
  <2>4. SumFunctionOnSet(after, DOMAIN table \cup {m})
            = after[m] + SumFunctionOnSet(after, DOMAIN table)
    BY <1>8, <2>1, <2>3, SumAddOne
  <2>5. SumFunctionOnSet(after, DOMAIN table) = SumFunctionOnSet(table, DOMAIN table)
    BY <1>8, <2>1, <2>2, SumSame
  <2>6. SumFunctionOnSet(table, DOMAIN table) \in Int
    BY <2>1, <2>2, SumTyped
  <2>7. SumFunctionOnSet(after, DOMAIN after) = a + SumFunctionOnSet(table, DOMAIN table)
    BY <1>8, <2>4, <2>5
  <2>8. PICK e, out : /\ e = SumFunctionOnSet([x \in DOMAIN refunds |-> refunds[x].amount], Executed)
                      /\ out = SumFunctionOnSet(table, DOMAIN table)
    OBVIOUS
  <2>9. PaidOut = out + e
    BY <1>9, <2>8, SumIsOnSet DEF PaidOut, Total
  <2>10. PaidOut' = (a + out) + e
    <3>1. Total(returns)' = a + out
      BY <1>9, <2>7, <2>8, SumIsOnSet DEF Total
    <3>2. SumFunctionOnSet([x \in DOMAIN refunds |-> refunds[x].amount], Executed)' = e
      BY <1>2, <2>8 DEF Executed
    <3> QED
      BY <3>1, <3>2 DEF PaidOut
  <2>11. e \in Int
    BY <1>5, <2>8, ExecutedTyped
  <2>12. (a + out) + e = (out + e) + a
    BY <1>6, <2>6, <2>8, <2>11
  <2> QED
    BY <2>9, <2>10, <2>12
<1>12. Grows(op)
  <2>1. Issued' = Issued
    BY <1>2 DEF Issued
  <2>2. /\ DOMAIN rows \subseteq DOMAIN rows'
        /\ \A i \in DOMAIN rows : /\ rows'[i].receipt = rows[i].receipt
                                  /\ rows'[i].amount = rows[i].amount
    BY <1>3, <1>4, HandBackGrows
  <2> QED
    BY <1>2, <1>3, <2>1, <2>2 DEF Grows
<1> QED
  BY <1>1, <1>2, <1>3, <1>4, <1>10, <1>11, <1>12, HandBackKeeps

LEMMA WriteExecuteRefundKeeps ==
    ASSUME Inv, NEW s \in Sessions, WriteExecuteRefund(s)
    PROVE  Inv'
<1>1. PICK op, why, f, r : op = "execute_refund" /\ why = "refund" /\ r = req[s] /\ f = r.on
  OBVIOUS
<1>2. /\ Serving(s, op) /\ Finish(s) /\ refunds' = [refunds EXCEPT ![f].status = "EXECUTED"]
      /\ UNCHANGED <<charges, receipts, discounts, carried, returns, deposits>>
  BY <1>1 DEF WriteExecuteRefund
<1>3. op \in HandingBack /\ why \in {"return", "refund"} /\ op \in Ops /\ op \in Decisions
  BY <1>1 DEF HandingBack, Ops, Decisions
<1>4. HandingOut(s, why)
  BY <1>1, <1>3 DEF HandingOut, WriteExecuteRefund, Serving
<1>5. TablesTyped /\ Sound(r) /\ r.op = op
  BY <1>1, <1>2, InvIs DEF Ledger, Serving
<1>6. f \in DOMAIN refunds /\ refunds[f].amount = r.amount
  BY <1>1, <1>3, <1>5 DEF Sound, Apt
<1>7. PICK rec : rec = [refunds[f] EXCEPT !.status = "EXECUTED"]
  OBVIOUS
<1>8. rec \in Refund /\ rec.amount = refunds[f].amount /\ rec.status = "EXECUTED"
  <2>1. refunds[f] = [amount |-> refunds[f].amount, status |-> refunds[f].status]
        /\ refunds[f].amount \in Nat \ {0}
    BY <1>5, <1>6, RefundsAre
  <2>2. rec = [amount |-> refunds[f].amount, status |-> "EXECUTED"]
    BY <1>7, <2>1
  <2>3. rec \in Refund
    BY <2>1, <2>2 DEF Refund
  <2> QED
    BY <2>2, <2>3
<1>9. PICK table, after : table = refunds /\ after = [table EXCEPT ![f] = rec]
  OBVIOUS
<1>10. /\ after \in Seq(Refund) /\ DOMAIN after = DOMAIN table
       /\ \A g \in DOMAIN table : after[g] = IF g = f THEN rec ELSE table[g]
  <2>1. table \in Seq(Refund)
    BY <1>5, <1>9 DEF TablesTyped
  <2> QED
    BY <1>6, <1>8, <1>9, <2>1, RowSaved
<1>11. refunds' = after /\ refunds = table
  BY <1>2, <1>7, <1>9
<1>12. TablesTyped'
  <2>1. returns' \in Seq(Nat \ {0})
    BY <1>2, <1>5 DEF TablesTyped
  <2> QED
    BY <1>2, <1>3, <1>4, <1>10, <1>11, <2>1, HandBackTyped
<1>13. PaidOut' = PaidOut + r.amount \/ Raced(Decisions \X {"execute_refund"})'
  <2>1. CASE "execute_refund" \in r.overtaken
    <3>1. <<op, "execute_refund">> \in Remembered
      BY <1>3 DEF Remembered
    <3>2. <<op, "execute_refund">> \in raced'
      BY <1>1, <1>2, <1>3, <2>1, <3>1, Finished
    <3> QED
      BY <1>3, <3>2 DEF Raced
  <2>2. CASE "execute_refund" \notin r.overtaken
    <3>1. refunds[f].status # "EXECUTED"
      BY <1>1, <1>3, <1>5, <2>2 DEF Sound, RefundSeen
    <3>2. PICK e, old, new : /\ e = Executed /\ old = [x \in DOMAIN refunds |-> refunds[x].amount]
                             /\ new = [x \in DOMAIN refunds' |-> refunds'[x].amount]
      OBVIOUS
    <3>3. Executed' = e \cup {f} /\ f \notin e
      BY <1>6, <1>8, <1>10, <1>11, <3>1, <3>2 DEF Executed
    <3>4. e \in SUBSET DOMAIN refunds /\ IsFiniteSet(e)
      <4>1. DOMAIN refunds = 1 .. Len(refunds) /\ Len(refunds) \in Nat
        BY <1>5, TablesAre
      <4>2. IsFiniteSet(DOMAIN refunds)
        BY <4>1, FS_Interval
      <4>3. e \in SUBSET DOMAIN refunds
        BY <3>2 DEF Executed
      <4> QED
        BY <4>2, <4>3, FS_Subset
    <3>5. /\ \A x \in DOMAIN refunds : old[x] = refunds[x].amount /\ old[x] \in Int
          /\ \A x \in DOMAIN refunds : new[x] = old[x]
      <4>1. \A x \in DOMAIN refunds : refunds[x].amount \in Int
        BY <1>5, RefundsAre
      <4> QED
        BY <1>8, <1>10, <1>11, <3>2, <4>1
    <3>6. SumFunctionOnSet(new, e \cup {f}) = new[f] + SumFunctionOnSet(new, e)
      BY <1>6, <3>3, <3>4, <3>5, SumAddOne
    <3>7. SumFunctionOnSet(new, e) = SumFunctionOnSet(old, e) /\ SumFunctionOnSet(old, e) \in Int
      BY <3>4, <3>5, SumSame, SumTyped
    <3>8. PICK p, m : p = Total(returns) /\ m = SumFunctionOnSet(old, e)
      OBVIOUS
    <3>9. PaidOut = p + m
      BY <3>2, <3>8 DEF PaidOut
    <3>10. PaidOut' = p + (r.amount + m)
      <4>1. Total(returns)' = p
        BY <1>2, <3>8 DEF Total
      <4>2. new[f] = r.amount
        BY <1>6, <3>5
      <4>3. SumFunctionOnSet([x \in DOMAIN refunds |-> refunds[x].amount], Executed)' = r.amount + m
        BY <3>2, <3>3, <3>6, <3>7, <3>8, <4>2
      <4> QED
        BY <4>1, <4>3 DEF PaidOut
    <3>11. p \in Int /\ m \in Int /\ r.amount \in Int
      <4>1. p \in Int
        BY <1>5, <3>8, ReturnsTyped
      <4> QED
        BY <1>6, <3>5, <3>7, <3>8, <4>1
    <3>12. p + (r.amount + m) = (p + m) + r.amount
      BY <3>11
    <3> QED
      BY <3>9, <3>10, <3>12
  <2> QED
    BY <2>1, <2>2
<1>14. Grows(op)
  <2>1. Issued' = Issued
    BY <1>2 DEF Issued
  <2>2. /\ DOMAIN rows \subseteq DOMAIN rows'
        /\ \A i \in DOMAIN rows : /\ rows'[i].receipt = rows[i].receipt
                                  /\ rows'[i].amount = rows[i].amount
    BY <1>3, <1>4, HandBackGrows
  <2>3. \A x \in DOMAIN refunds :
          /\ refunds'[x].amount = refunds[x].amount
          /\ refunds'[x].status = refunds[x].status \/ op = "execute_refund"
    BY <1>1, <1>8, <1>10, <1>11
  <2>4. DOMAIN refunds' = DOMAIN refunds
    BY <1>10, <1>11
  <2> QED
    BY <1>2, <1>3, <2>1, <2>2, <2>3, <2>4 DEF Grows
<1> QED
  BY <1>1, <1>2, <1>3, <1>4, <1>12, <1>13, <1>14, HandBackKeeps

-----------------------------------------------------------------------------
(* Voids. *)

LEMMA RowsFormed ==
    TablesTyped =>
        /\ \A i \in DOMAIN rows :
              rows[i] = [receipt |-> rows[i].receipt, line |-> rows[i].line, amount |-> rows[i].amount,
                         why |-> rows[i].why, reversed |-> rows[i].reversed]
        /\ \A r \in DOMAIN receipts :
              receipts[r] = [amount |-> receipts[r].amount, year |-> receipts[r].year,
                             status |-> receipts[r].status]
<1> SUFFICES ASSUME TablesTyped
             PROVE  /\ \A i \in DOMAIN rows :
                          rows[i] = [receipt |-> rows[i].receipt, line |-> rows[i].line,
                                     amount |-> rows[i].amount, why |-> rows[i].why,
                                     reversed |-> rows[i].reversed]
                    /\ \A r \in DOMAIN receipts :
                          receipts[r] = [amount |-> receipts[r].amount, year |-> receipts[r].year,
                                         status |-> receipts[r].status]
  OBVIOUS
<1>1. ASSUME NEW i \in DOMAIN rows
      PROVE  rows[i] = [receipt |-> rows[i].receipt, line |-> rows[i].line,
                        amount |-> rows[i].amount, why |-> rows[i].why,
                        reversed |-> rows[i].reversed]
  <2>1. rows[i] \in Allocation
    BY RowsAre
  <2> QED
    BY <2>1 DEF Allocation
<1>2. ASSUME NEW r \in DOMAIN receipts
      PROVE  receipts[r] = [amount |-> receipts[r].amount, year |-> receipts[r].year,
                            status |-> receipts[r].status]
  <2>1. receipts[r] \in Receipt
    BY RowsAre
  <2> QED
    BY <2>1 DEF Receipt
<1> QED
  BY <1>1, <1>2

(***************************************************************************)
(* What a void writes: every allocation it has listed is marked, and       *)
(* mirrored by a row of the opposite amount.                               *)
(***************************************************************************)
Marked(old, f) ==
    \A i \in DOMAIN rows : old[i].reversed <=> rows[i].reversed \/ i \in DOMAIN f

Mirrors(f, r) ==
    /\ IsFiniteSet(DOMAIN f) /\ DOMAIN f \subseteq DOMAIN rows
    /\ \A x \in DOMAIN f : /\ rows[x].receipt = r /\ f[x] = -rows[x].amount
                           /\ f[x] \in Int \ {0}

Unwound(f, old, n, at, r) ==
    /\ Mirrors(f, r) /\ Keeps(old) /\ Marked(old, f)
    /\ TurnedBack(f, "void", old, n, at)

LEMMA VoidedReceipt ==
    ASSUME TablesTyped, NEW r \in DOMAIN receipts,
           receipts' = [receipts EXCEPT ![r].status = "VOIDED"]
    PROVE  /\ receipts' \in Seq(Receipt) /\ DOMAIN receipts' = DOMAIN receipts
           /\ \A c \in DOMAIN receipts : /\ receipts'[c].amount = receipts[c].amount
                                         /\ receipts'[c].year = receipts[c].year
           /\ Issued' = Issued \ {r}
<1>1. PICK rec, table, after : /\ rec = [receipts[r] EXCEPT !.status = "VOIDED"]
                               /\ table = receipts /\ after = [table EXCEPT ![r] = rec]
  OBVIOUS
<1>2. rec = [amount |-> receipts[r].amount, year |-> receipts[r].year, status |-> "VOIDED"]
  <2>1. receipts[r] = [amount |-> receipts[r].amount, year |-> receipts[r].year,
                       status |-> receipts[r].status]
    BY RowsFormed
  <2> QED
    BY <1>1, <2>1
<1>3. rec \in Receipt /\ rec.status = "VOIDED"
      /\ rec.amount = receipts[r].amount /\ rec.year = receipts[r].year
  <2>1. receipts[r].amount \in Nat \ {0} /\ receipts[r].year \in Years
    BY RowsAre
  <2>2. rec \in Receipt
    BY <1>2, <2>1 DEF Receipt
  <2> QED
    BY <1>2, <2>2
<1>4. /\ after \in Seq(Receipt) /\ DOMAIN after = DOMAIN table
      /\ \A c \in DOMAIN table : after[c] = IF c = r THEN rec ELSE table[c]
  <2>1. table \in Seq(Receipt)
    BY <1>1 DEF TablesTyped
  <2> QED
    BY <1>1, <1>3, <2>1, RowSaved
<1>5. receipts' = after /\ receipts = table
  BY <1>1
<1>6. Issued' = Issued \ {r}
  BY <1>3, <1>4, <1>5 DEF Issued
<1> QED
  BY <1>3, <1>4, <1>5, <1>6

LEMMA VoidWritten ==
    ASSUME Inv, NEW s \in Sessions, WriteApproveVoid(s),
           NEW r, r = req[s].on, NEW f, f = req[s].shares
    PROVE  /\ r \in DOMAIN receipts
           /\ receipts' = [receipts EXCEPT ![r].status = "VOIDED"]
           /\ \E old, n, at : Unwound(f, old, n, at, r)
<1>1. TablesTyped /\ Sound(req[s])
  BY InvIs DEF Ledger
<1>2. /\ r \in DOMAIN receipts /\ DOMAIN f \subseteq DOMAIN rows
      /\ \A x \in DOMAIN f : rows[x].receipt = r /\ f[x] = -rows[x].amount
  BY <1>1 DEF WriteApproveVoid, Serving, Sound, Apt
<1>4. PICK old : old = [i \in DOMAIN rows |-> [rows[i] EXCEPT !.reversed = @ \/ i \in DOMAIN f]]
  OBVIOUS
<1>5. Joined(rows', old, Reversals(f, "void"))
  <2>1. rows' = [i \in DOMAIN rows |-> [rows[i] EXCEPT !.reversed = @ \/ i \in DOMAIN f]]
                \o Reversals(f, "void")
    BY DEF WriteApproveVoid
  <2> QED
    BY <1>4, <2>1 DEF Joined
<1>7. \A x \in DOMAIN f : /\ rows[x].receipt = r /\ f[x] = -rows[x].amount
                          /\ f[x] \in Int \ {0}
  <2>1. \A x \in DOMAIN f : rows[x].amount \in Int /\ rows[x].amount # 0
    BY <1>1, <1>2, RowsAre
  <2> QED
    BY <1>2, <2>1
<1>8. ASSUME NEW i \in DOMAIN rows
      PROVE  /\ old[i] \in Allocation
             /\ old[i].receipt = rows[i].receipt /\ old[i].line = rows[i].line
             /\ old[i].amount = rows[i].amount /\ old[i].why = rows[i].why
             /\ old[i].reversed <=> rows[i].reversed \/ i \in DOMAIN f
  <2>1. PICK rec, mark : rec = rows[i] /\ mark = (rows[i].reversed \/ i \in DOMAIN f)
    OBVIOUS
  <2>2. old[i] = [rec EXCEPT !.reversed = mark]
    BY <1>4, <2>1
  <2>3. rec = [receipt |-> rec.receipt, line |-> rec.line, amount |-> rec.amount,
               why |-> rec.why, reversed |-> rec.reversed]
    BY <1>1, <2>1, RowsFormed
  <2>4. old[i] = [receipt |-> rec.receipt, line |-> rec.line, amount |-> rec.amount,
                  why |-> rec.why, reversed |-> mark]
    BY <2>2, <2>3
  <2>5. rec \in Allocation /\ mark \in BOOLEAN
    BY <1>1, <2>1, RowsAre
  <2>6. old[i] \in Allocation
    BY <2>4, <2>5 DEF Allocation
  <2>7. /\ old[i].receipt = rec.receipt /\ old[i].line = rec.line
        /\ old[i].amount = rec.amount /\ old[i].why = rec.why
    BY <2>4
  <2>8. old[i].reversed = mark
    BY <2>4
  <2> QED
    BY <2>1, <2>6, <2>7, <2>8
<1>9. Keeps(old)
  <2>1. DOMAIN old = DOMAIN rows /\ old = [i \in DOMAIN rows |-> old[i]]
    BY <1>4
  <2>2. PICK table : table = rows
    OBVIOUS
  <2>3. table \in Seq(Allocation)
    BY <1>1, <2>2 DEF TablesTyped
  <2>4. old \in Seq(Allocation) /\ Len(old) = Len(table)
    BY <1>8, <2>1, <2>2, <2>3, RowsMapped
  <2>5. \A i \in DOMAIN rows : /\ old[i].receipt = rows[i].receipt
                               /\ old[i].line = rows[i].line
                               /\ old[i].amount = rows[i].amount
                               /\ old[i].why = rows[i].why
    BY <1>8
  <2> QED
    BY <2>2, <2>4, <2>5 DEF Keeps
<1>10. Marked(old, f)
  BY <1>8 DEF Marked
<1>11. IsFiniteSet(DOMAIN f) /\ \E n, at : TurnedBack(f, "void", old, n, at)
  <2>1. PICK why \in {"void", "return", "refund"} : why = "void"
    OBVIOUS
  <2>2. Joined(rows', old, Reversals(f, why))
    BY <1>5, <2>1
  <2>3. IsFiniteSet(DOMAIN f) /\ \E n, at : TurnedBack(f, why, old, n, at)
    BY <1>1, <1>2, <1>7, <1>9, <2>2, ReversalWritten
  <2> QED
    BY <2>1, <2>3
<1>12. PICK n, at : TurnedBack(f, "void", old, n, at)
  BY <1>11
<1>13. Unwound(f, old, n, at, r)
  BY <1>2, <1>7, <1>9, <1>10, <1>11, <1>12 DEF Unwound, Mirrors
<1>14. receipts' = [receipts EXCEPT ![r].status = "VOIDED"]
  BY DEF WriteApproveVoid
<1> QED
  BY <1>2, <1>13, <1>14

LEMMA RowsUnwound ==
    ASSUME TablesTyped, NEW r, NEW f, NEW old, NEW n, NEW at, Unwound(f, old, n, at, r)
    PROVE  /\ rows' \in Seq(Allocation)
           /\ DOMAIN rows \subseteq DOMAIN rows'
           /\ \A i \in DOMAIN rows :
                 /\ rows'[i].receipt = rows[i].receipt /\ rows'[i].line = rows[i].line
                 /\ rows'[i].amount = rows[i].amount /\ rows'[i].why = rows[i].why
                 /\ rows'[i].reversed => rows[i].reversed \/ rows[i].receipt = r
           /\ \A i \in DOMAIN rows' \ DOMAIN rows :
                 /\ rows'[i].why = "void" /\ ~rows'[i].reversed
                 /\ \E x \in DOMAIN rows : /\ rows'[i].receipt = rows[x].receipt
                                           /\ rows'[i].line = rows[x].line
                                           /\ rows[x].receipt = r
<1>1. DOMAIN rows' = 1 .. (Len(rows) + n) /\ n \in Nat /\ DOMAIN rows = 1 .. Len(rows)
      /\ Len(rows) \in Nat
  BY TablesAre DEF Unwound, TurnedBack, Written
<1>2. rows' \in Seq(Allocation)
  BY DEF Unwound, TurnedBack
<1>3. ASSUME NEW i \in DOMAIN rows' \ DOMAIN rows
      PROVE  /\ rows'[i].why = "void" /\ ~rows'[i].reversed
             /\ \E x \in DOMAIN rows : /\ rows'[i].receipt = rows[x].receipt
                                       /\ rows'[i].line = rows[x].line
                                       /\ rows[x].receipt = r
  <2>1. PICK k \in 1 .. n : i = Len(rows) + k
    <3>1. i - Len(rows) \in 1 .. n /\ i = Len(rows) + (i - Len(rows))
      BY <1>1
    <3> QED
      BY <3>1
  <2>2. /\ rows'[i].why = "void" /\ ~rows'[i].reversed
        /\ rows'[i].receipt = rows[at[k]].receipt /\ rows'[i].line = rows[at[k]].line
        /\ at[k] \in DOMAIN f
    BY <2>1 DEF Unwound, TurnedBack, Written
  <2>3. at[k] \in DOMAIN rows /\ rows[at[k]].receipt = r
    BY <2>2 DEF Unwound, Mirrors
  <2> QED
    BY <2>2, <2>3
<1>4. ASSUME NEW i \in DOMAIN rows
      PROVE  /\ rows'[i].receipt = rows[i].receipt /\ rows'[i].line = rows[i].line
             /\ rows'[i].amount = rows[i].amount /\ rows'[i].why = rows[i].why
             /\ rows'[i].reversed => rows[i].reversed \/ rows[i].receipt = r
  <2>1. rows'[i] = old[i]
    BY DEF Unwound, TurnedBack
  <2>2. /\ old[i].receipt = rows[i].receipt /\ old[i].line = rows[i].line
        /\ old[i].amount = rows[i].amount /\ old[i].why = rows[i].why
    BY DEF Unwound, Keeps
  <2>3. old[i].reversed => rows[i].reversed \/ rows[i].receipt = r
    BY DEF Unwound, Marked, Mirrors
  <2> QED
    BY <2>1, <2>2, <2>3
<1>5. DOMAIN rows \subseteq DOMAIN rows'
  BY <1>1
<1> QED
  BY <1>2, <1>3, <1>4, <1>5

(***************************************************************************)
(* A void takes the receipt out of the money in force, and the receipt's   *)
(* own money to nothing when it was in force and all of it was listed.     *)
(***************************************************************************)
LEMMA VoidMoves ==
    ASSUME Inv, TablesTyped', NEW r \in DOMAIN receipts, Issued' = Issued \ {r},
           NEW f, NEW old, NEW n, NEW at, Unwound(f, old, n, at, r)
    PROVE  /\ TotalPaid' = Money(Issued \ {r}, Nat, Whys)
           /\ \A l : Allocated(l)' = Money(Issued \ {r}, {l}, Whys)
           /\ \A c : c # r => SumStays(c)
           /\ \A c : SumRows(PaymentsOf(c))' = SumRows(PaymentsOf(c))
           /\ r \in Issued /\ Mirrored(r) = DOMAIN f
                  => SumRows({i \in DOMAIN rows : rows[i].receipt = r})' = 0
<1>1. /\ Written(f, n, at) /\ IsFiniteSet(DOMAIN f) /\ DOMAIN f \subseteq DOMAIN rows
      /\ \A x \in DOMAIN f : rows[x].receipt = r /\ f[x] = -rows[x].amount /\ f[x] \in Int
      /\ \A k \in 1 .. n : /\ at[k] \in DOMAIN f
                           /\ rows'[Len(rows) + k].receipt = r
                           /\ rows'[Len(rows) + k].line = rows[at[k]].line
                           /\ rows'[Len(rows) + k].why = "void"
  <2>1. /\ IsFiniteSet(DOMAIN f) /\ DOMAIN f \subseteq DOMAIN rows
        /\ \A x \in DOMAIN f : rows[x].receipt = r /\ f[x] = -rows[x].amount /\ f[x] \in Int
    BY DEF Unwound, Mirrors
  <2>2. TurnedBack(f, "void", old, n, at)
    BY DEF Unwound
  <2>3. Written(f, n, at) /\ \A k \in 1 .. n : at[k] \in DOMAIN f
    BY <2>2 DEF TurnedBack, Written
  <2>4. \A k \in 1 .. n : /\ rows'[Len(rows) + k].receipt = rows[at[k]].receipt
                          /\ rows'[Len(rows) + k].line = rows[at[k]].line
                          /\ rows'[Len(rows) + k].why = "void"
    BY <2>2 DEF TurnedBack
  <2> QED
    BY <2>1, <2>3, <2>4
<1>2. TablesTyped /\ RowsTell
  BY InvTables
<1>3. SumFunctionOnSet(f, {}) = 0
  BY SumFirst, FS_EmptySet
<1>4. ASSUME NEW Rs, NEW Ls, NEW Ws, r \notin Rs \/ "void" \notin Ws
      PROVE  Money(Rs, Ls, Ws)' = Money(Rs, Ls, Ws)
  <2>1. PICK P \in SUBSET DOMAIN f : P = {}
    OBVIOUS
  <2>2. \A k \in 1 .. n : (/\ rows'[Len(rows) + k].receipt \in Rs
                           /\ rows'[Len(rows) + k].line \in Ls
                           /\ rows'[Len(rows) + k].why \in Ws) <=> at[k] \in P
    BY <1>1, <1>4, <2>1
  <2>3. Money(Rs, Ls, Ws)' = Money(Rs, Ls, Ws) + SumFunctionOnSet(f, P)
    BY <1>1, <1>2, <2>2, MoneyWritten
  <2>4. PICK m, k : m = Money(Rs, Ls, Ws) /\ k = Money(Rs, Ls, Ws)'
    OBVIOUS
  <2>5. m \in Int /\ k = m + 0
    BY <1>2, <1>3, <2>1, <2>3, <2>4, MoneyTyped
  <2>6. k = m
    BY <2>5
  <2> QED
    BY <2>4, <2>6
<1>5. PICK R, W, one, me : R = Issued \ {r} /\ W = Whys /\ one = {"payment"} /\ me = {r}
  OBVIOUS
<1>6. r \notin R /\ "void" \notin one /\ R = Issued'
  BY <1>5
<1>7. /\ TotalPaid' = Money(R, Nat, W)'
      /\ \A l : Allocated(l)' = Money(R, {l}, W)'
      /\ \A c : SumRows({i \in DOMAIN rows : rows[i].receipt = c})' = Money({c}, Nat, W)'
      /\ \A c : SumRows(PaymentsOf(c))' = Money({c}, Nat, one)'
  <2>1. \A Ls : Money(R, Ls, Whys)' = Money(R, Ls, W)'
    BY <1>5 DEF Money, RowsIn, Whys
  <2>2. \A c : Money({c}, Nat, Whys)' = Money({c}, Nat, W)'
    BY <1>5 DEF Money, RowsIn, Whys
  <2>3. \A c : Money({c}, Nat, {"payment"})' = Money({c}, Nat, one)'
    BY <1>5 DEF Money, RowsIn
  <2>4. /\ TotalPaid' = Money(R, Nat, Whys)'
        /\ \A l : Allocated(l)' = Money(R, {l}, Whys)'
        /\ \A c : SumRows({i \in DOMAIN rows : rows[i].receipt = c})' = Money({c}, Nat, Whys)'
        /\ \A c : SumRows(PaymentsOf(c))' = Money({c}, Nat, {"payment"})'
    BY <1>6, MoneyIsNext
  <2> QED
    BY <2>1, <2>2, <2>3, <2>4
<1>8. /\ \A c : SumRows({i \in DOMAIN rows : rows[i].receipt = c}) = Money({c}, Nat, W)
      /\ \A c : SumRows(PaymentsOf(c)) = Money({c}, Nat, one)
  BY <1>2, <1>5, SumsAreMoney
<1>9. TotalPaid' = Money(R, Nat, W)
  BY <1>4, <1>6, <1>7
<1>10. \A l : Allocated(l)' = Money(R, {l}, W)
  BY <1>4, <1>6, <1>7
<1>11. ASSUME NEW c, c # r PROVE SumStays(c)
  <2>1. PICK Rs : Rs = {c}
    OBVIOUS
  <2>2. r \notin Rs
    BY <1>11, <2>1
  <2>3. Money(Rs, Nat, W)' = Money(Rs, Nat, W)
    BY <1>4, <2>2
  <2> QED
    BY <1>7, <1>8, <2>1, <2>3 DEF SumStays
<1>12. ASSUME NEW c PROVE SumRows(PaymentsOf(c))' = SumRows(PaymentsOf(c))
  <2>1. PICK Rs : Rs = {c}
    OBVIOUS
  <2>2. Money(Rs, Nat, one)' = Money(Rs, Nat, one)
    BY <1>4, <1>6
  <2> QED
    BY <1>7, <1>8, <2>1, <2>2
<1>13. ASSUME r \in Issued, Mirrored(r) = DOMAIN f
       PROVE  SumRows({i \in DOMAIN rows : rows[i].receipt = r})' = 0
  <2>1. RowsIn(me, Nat, W) = DOMAIN f
    <3>1. \A i \in DOMAIN rows : rows[i].line \in Nat /\ rows[i].why \in W
      BY <1>2, <1>5, RowsAre
    <3>2. \A i \in DOMAIN rows : rows[i].receipt = r => ~rows[i].reversed
      BY <1>2, <1>13 DEF RowsTell
    <3> QED
      BY <1>1, <1>5, <1>13, <3>1, <3>2 DEF RowsIn, Mirrored
  <2>2. PICK P \in SUBSET DOMAIN f : P = DOMAIN f
    OBVIOUS
  <2>3. \A k \in 1 .. n : (/\ rows'[Len(rows) + k].receipt \in me
                           /\ rows'[Len(rows) + k].line \in Nat
                           /\ rows'[Len(rows) + k].why \in W) <=> at[k] \in P
    <3>1. \A x \in DOMAIN f : rows[x].line \in Nat
      BY <1>1, <1>2, RowsAre
    <3>2. "void" \in W
      BY <1>5 DEF Whys
    <3> QED
      BY <1>1, <1>5, <2>2, <3>1, <3>2
  <2>4. Money(me, Nat, W)' = Money(me, Nat, W) + SumFunctionOnSet(f, P)
    BY <1>1, <1>2, <2>3, MoneyWritten
  <2>5. PICK g, m, x : g = Amount /\ m = SumFunctionOnSet(g, P) /\ x = SumFunctionOnSet(f, P)
    OBVIOUS
  <2>6. \A i \in P : g[i] \in Int /\ f[i] = -g[i]
    BY <1>1, <1>2, <2>2, <2>5, RowsAre DEF Amount
  <2>7. x = -m /\ m \in Int
    BY <1>1, <2>2, <2>5, <2>6, SumOfOpposites, SumTyped
  <2>8. Money(me, Nat, W) = m
    BY <2>1, <2>2, <2>5 DEF Money
  <2>9. Money(me, Nat, W)' = 0
    BY <2>4, <2>5, <2>7, <2>8
  <2> QED
    BY <1>5, <1>7, <2>9
<1> QED
  BY <1>5, <1>9, <1>10, <1>11, <1>12, <1>13

(***************************************************************************)
(* What a receipt in force carries, where nothing of it was handed back:   *)
(* its payment.                                                            *)
(***************************************************************************)
LEMMA OnlyPaid ==
    ASSUME Inv, NEW r \in Issued,
           \A i \in DOMAIN rows : rows[i].receipt = r => rows[i].why \notin {"return", "refund"}
    PROVE  /\ TotalPaid = Money(Issued \ {r}, Nat, Whys) + receipts[r].amount
           /\ \A l : Allocated(l) >= Money(Issued \ {r}, {l}, Whys)
<1>1. TablesTyped /\ RowsTell /\ ReceiptsWhole
  BY InvTables
<1>2. \A i \in DOMAIN rows : rows[i].receipt = r => rows[i].why = "payment" /\ rows[i].amount \in Nat
  <2>1. \A i \in DOMAIN rows : rows[i].amount \in Int /\ rows[i].why \in Whys
    BY <1>1, RowsAre
  <2> QED
    BY <1>1, <2>1 DEF RowsTell, Whys
<1>3. ASSUME NEW Ls
      PROVE  /\ Money(Issued, Ls, Whys) = Money(Issued \ {r}, Ls, Whys) + Money({r}, Ls, Whys)
             /\ Money({r}, Ls, Whys) \in Nat
             /\ Money(Issued \ {r}, Ls, Whys) \in Int
  <2>1. PICK A, B, C, g : /\ A = RowsIn(Issued, Ls, Whys) /\ B = RowsIn(Issued \ {r}, Ls, Whys)
                          /\ C = RowsIn({r}, Ls, Whys) /\ g = Amount
    OBVIOUS
  <2>2. A = B \cup C /\ B \cap C = {}
    BY <2>1 DEF RowsIn
  <2>3. A \in SUBSET DOMAIN rows /\ B \in SUBSET DOMAIN rows /\ C \in SUBSET DOMAIN rows
    BY <2>1 DEF RowsIn
  <2>4. /\ IsFiniteSet(A) /\ \A i \in A : g[i] \in Int
        /\ IsFiniteSet(B) /\ IsFiniteSet(C)
    BY <1>1, <2>1, <2>3, RowsFinite
  <2>5. SumFunctionOnSet(g, A) = SumFunctionOnSet(g, B) + SumFunctionOnSet(g, C)
    BY <2>2, <2>4, SumTogether
  <2>6. \A i \in C : g[i] \in Nat
    BY <1>2, <2>1 DEF RowsIn, Amount
  <2>7. SumFunctionOnSet(g, C) \in Nat
    BY <2>4, <2>6, SumOfNaturals
  <2>8. Money(Issued \ {r}, Ls, Whys) \in Int
    BY <1>1, MoneyTyped
  <2> QED
    BY <2>1, <2>5, <2>7, <2>8 DEF Money
<1>4. Money({r}, Nat, Whys) = receipts[r].amount
  <2>1. r \in DOMAIN receipts
    BY DEF Issued
  <2>2. RowsIn({r}, Nat, Whys) = RowsIn({r}, Nat, {"payment"})
    BY <1>2 DEF RowsIn, Whys
  <2>3. Money({r}, Nat, Whys) = Money({r}, Nat, {"payment"})
    BY <2>2 DEF Money
  <2>4. SumRows(PaymentsOf(r)) = Money({r}, Nat, {"payment"})
    BY <1>1, SumsAreMoney
  <2> QED
    BY <1>1, <2>1, <2>3, <2>4 DEF ReceiptsWhole
<1>5. TotalPaid = Money(Issued, Nat, Whys) /\ \A l : Allocated(l) = Money(Issued, {l}, Whys)
  BY <1>1, SumsAreMoney
<1>6. TotalPaid = Money(Issued \ {r}, Nat, Whys) + receipts[r].amount
  BY <1>3, <1>4, <1>5
<1>7. ASSUME NEW l PROVE Allocated(l) >= Money(Issued \ {r}, {l}, Whys)
  <2>1. PICK a, b, c : /\ a = Money(Issued, {l}, Whys) /\ b = Money(Issued \ {r}, {l}, Whys)
                       /\ c = Money({r}, {l}, Whys)
    OBVIOUS
  <2>2. a = b + c /\ b \in Int /\ c \in Nat
    BY <1>3, <2>1
  <2>3. a >= b
    BY <2>2
  <2> QED
    BY <1>5, <2>1, <2>3
<1> QED
  BY <1>6, <1>7

LEMMA CollectedLess ==
    ASSUME TablesTyped, NEW r \in Issued, Issued' = Issued \ {r},
           DOMAIN receipts' = DOMAIN receipts,
           \A c \in DOMAIN receipts : receipts'[c].amount = receipts[c].amount
    PROVE  Collected(Issued) = Collected(Issued)' + receipts[r].amount
<1>1. PICK R, S, f, g : /\ R = Issued /\ S = Issued'
                        /\ f = [c \in DOMAIN receipts |-> receipts[c].amount]
                        /\ g = [c \in DOMAIN receipts' |-> receipts'[c].amount]
  OBVIOUS
<1>2. Collected(Issued) = SumFunctionOnSet(f, R) /\ Collected(Issued)' = SumFunctionOnSet(g, S)
  BY <1>1 DEF Collected
<1>3. R \subseteq DOMAIN receipts /\ IsFiniteSet(R)
  <2>1. DOMAIN receipts = 1 .. Len(receipts) /\ Len(receipts) \in Nat
    BY TablesAre
  <2>2. IsFiniteSet(DOMAIN receipts)
    BY <2>1, FS_Interval
  <2>3. R \in SUBSET DOMAIN receipts
    BY <1>1 DEF Issued
  <2> QED
    BY <2>2, <2>3, FS_Subset
<1>4. \A c \in R : f[c] \in Int /\ g[c] = f[c]
  BY <1>1, <1>3, RowsAre
<1>5. S = R \ {r} /\ r \in R /\ f[r] = receipts[r].amount
  BY <1>1, <1>3
<1>6. SumFunctionOnSet(f, R) = f[r] + SumFunctionOnSet(f, S)
  BY <1>3, <1>4, <1>5, SumTakeOut
<1>7. IsFiniteSet(S) /\ \A c \in S : f[c] \in Int /\ g[c] = f[c]
  BY <1>3, <1>4, <1>5, FS_Subset
<1>8. SumFunctionOnSet(g, S) = SumFunctionOnSet(f, S) /\ SumFunctionOnSet(f, S) \in Int
  BY <1>7, SumSame, SumTyped
<1>9. f[r] \in Int
  BY <1>4, <1>5
<1> QED
  BY <1>2, <1>5, <1>6, <1>8, <1>9

LEMMA WriteApproveVoidKeeps ==
    ASSUME Inv, NEW s \in Sessions, WriteApproveVoid(s)
    PROVE  Inv'
<1>1. PICK q, r, op, f : q = req[s] /\ r = q.on /\ op = "approve_void" /\ f = q.shares
  OBVIOUS
<1>2. /\ q.op = op /\ q.spread /\ Serving(s, op) /\ Finish(s)
      /\ UNCHANGED <<charges, discounts, carried, returns, refunds, deposits>>
  BY <1>1 DEF WriteApproveVoid, Serving
<1>3. TablesTyped /\ Ledger /\ Sound(q)
  BY <1>1, InvIs DEF Ledger
<1>4. op \in Ops
  BY <1>1 DEF Ops
<1>5. /\ r \in DOMAIN receipts
      /\ receipts' = [receipts EXCEPT ![r].status = "VOIDED"]
      /\ \E old, n, at : Unwound(f, old, n, at, r)
  BY <1>1, VoidWritten
<1>6. PICK old, n, at : Unwound(f, old, n, at, r)
  BY <1>5
<1>7. /\ receipts' \in Seq(Receipt) /\ DOMAIN receipts' = DOMAIN receipts
      /\ \A c \in DOMAIN receipts : /\ receipts'[c].amount = receipts[c].amount
                                    /\ receipts'[c].year = receipts[c].year
      /\ Issued' = Issued \ {r}
  BY <1>3, <1>5, VoidedReceipt
<1>8. /\ rows' \in Seq(Allocation)
      /\ DOMAIN rows \subseteq DOMAIN rows'
      /\ \A i \in DOMAIN rows :
            /\ rows'[i].receipt = rows[i].receipt /\ rows'[i].line = rows[i].line
            /\ rows'[i].amount = rows[i].amount /\ rows'[i].why = rows[i].why
            /\ rows'[i].reversed => rows[i].reversed \/ rows[i].receipt = r
      /\ \A i \in DOMAIN rows' \ DOMAIN rows :
            /\ rows'[i].why = "void" /\ ~rows'[i].reversed
            /\ \E x \in DOMAIN rows : /\ rows'[i].receipt = rows[x].receipt
                                      /\ rows'[i].line = rows[x].line
                                      /\ rows[x].receipt = r
  BY <1>3, <1>6, RowsUnwound
<1>9. TablesTyped'
  <2>1. ASSUME NEW i \in DOMAIN rows'
        PROVE  rows'[i].receipt \in DOMAIN receipts /\ rows'[i].line \in DOMAIN charges \cup {0}
    <3>1. PICK x \in DOMAIN rows : rows'[i].receipt = rows[x].receipt /\ rows'[i].line = rows[x].line
      BY <1>8
    <3>2. rows[x].receipt \in DOMAIN receipts /\ rows[x].line \in DOMAIN charges \cup {0}
      BY <1>3, RowsAre
    <3> QED
      BY <3>1, <3>2
  <2> QED
    BY <1>2, <1>3, <1>7, <1>8, <2>1 DEF TablesTyped
<1>10. /\ TotalPaid' = Money(Issued \ {r}, Nat, Whys)
       /\ \A l : Allocated(l)' = Money(Issued \ {r}, {l}, Whys)
       /\ \A c : c # r => SumStays(c)
       /\ \A c : SumRows(PaymentsOf(c))' = SumRows(PaymentsOf(c))
       /\ r \in Issued /\ Mirrored(r) = DOMAIN f
              => SumRows({i \in DOMAIN rows : rows[i].receipt = r})' = 0
  BY <1>5, <1>6, <1>7, <1>9, VoidMoves
<1>11. /\ Served(op, {s}) /\ raced \subseteq raced' /\ raced' \in SUBSET (Ops \X Ops)
       /\ \A by \in q.overtaken : <<op, by>> \in Remembered => <<op, by>> \in raced'
  BY <1>1, <1>2, <1>4, Finished
<1>12. HandBackVoided => HandBackVoided'
  <2> SUFFICES ASSUME HandBackVoided PROVE HandBackVoided'
    OBVIOUS
  <2>1. PICK i \in DOMAIN rows : rows[i].why \in {"return", "refund"} /\ rows[i].receipt \notin Issued
    BY DEF HandBackVoided
  <2>2. i \in DOMAIN rows' /\ rows'[i].why \in {"return", "refund"} /\ rows'[i].receipt \notin Issued'
    BY <1>7, <1>8, <2>1
  <2> QED
    BY <2>2 DEF HandBackVoided
<1>13. ASSUME ~HandBackVoided', r \in Issued
       PROVE  /\ TotalPaid = TotalPaid' + receipts[r].amount
              /\ \A l : Allocated(l)' <= Allocated(l)
  <2>1. ASSUME NEW i \in DOMAIN rows, rows[i].receipt = r
        PROVE  rows[i].why \notin {"return", "refund"}
    BY <1>7, <1>8, <1>13, <2>1 DEF HandBackVoided
  <2>2. /\ TotalPaid = Money(Issued \ {r}, Nat, Whys) + receipts[r].amount
        /\ \A l : Allocated(l) >= Money(Issued \ {r}, {l}, Whys)
    BY <1>13, <2>1, OnlyPaid
  <2>3. ASSUME NEW l PROVE Allocated(l)' <= Allocated(l)
    <3>1. PICK a, b : a = Allocated(l) /\ b = Money(Issued \ {r}, {l}, Whys)
      OBVIOUS
    <3>2. a >= b /\ a \in Int /\ b \in Int
      BY <1>3, <2>2, <3>1, AmountsTyped, MoneyTyped
    <3>3. b <= a
      BY <3>2
    <3> QED
      BY <1>10, <3>1, <3>3
  <2> QED
    BY <1>10, <2>2, <2>3
<1>14. ASSUME r \notin Issued
       PROVE  TotalPaid' = TotalPaid /\ \A l : Allocated(l)' = Allocated(l)
  <2>1. Issued \ {r} = Issued
    BY <1>14
  <2> QED
    BY <1>3, <1>10, <2>1, SumsAreMoney
<1>15. LinesKept'
  <2>1. LinesGrow
    BY <1>2, <1>7, <1>11 DEF LinesGrow
  <2>2. DOMAIN charges' \ DOMAIN charges = {}
    BY <1>2
  <2>3. \A l \in DOMAIN charges' \ DOMAIN charges : Allocated(l)' <= charges'[l].gross
    BY <2>2
  <2>4. ~HandBackVoided' => \A l \in DOMAIN charges : Allocated(l)' <= Allocated(l)
    <3>1. ASSUME NEW l \in DOMAIN charges, r \notin Issued PROVE Allocated(l)' <= Allocated(l)
      <4>1. PICK a, b : a = Allocated(l) /\ b = Allocated(l)'
        OBVIOUS
      <4>2. a \in Int /\ b = a
        BY <1>3, <1>14, <3>1, <4>1, AmountsTyped
      <4>3. b <= a
        BY <4>2
      <4> QED
        BY <4>1, <4>3
    <3> QED
      BY <1>13, <3>1
  <2> QED
    BY <1>4, <1>9, <1>11, <1>12, <2>1, <2>3, <2>4, LinesStay
<1>16. PaidIsCollected'
  <2>1. PaidIsCollected
    BY <1>3 DEF Ledger
  <2>2. CASE HandBackVoided'
    BY <2>2 DEF PaidIsCollected
  <2>3. CASE Raced(Decisions \X {"execute_refund"})
    BY <1>11, <2>3 DEF PaidIsCollected, Raced
  <2>4. CASE ~HandBackVoided' /\ TotalPaid = Collected(Issued) - PaidOut
    <3>1. PaidOut' = PaidOut
      <4>1. Executed' = Executed
        BY <1>2 DEF Executed
      <4> QED
        BY <1>2, <1>3, <4>1, PaidOutStays
    <3>2. CASE r \in Issued
      <4>1. Collected(Issued) = Collected(Issued)' + receipts[r].amount
        BY <1>3, <1>7, <3>2, CollectedLess
      <4>2. PICK t, c, p, t2, c2, m :
                /\ t = TotalPaid /\ c = Collected(Issued) /\ p = PaidOut
                /\ t2 = TotalPaid' /\ c2 = Collected(Issued)' /\ m = receipts[r].amount
        OBVIOUS
      <4>3. t = c - p /\ t = t2 + m /\ c = c2 + m
        BY <1>13, <2>4, <3>2, <4>1, <4>2
      <4>4. p \in Int /\ m \in Int /\ t2 \in Int /\ c2 \in Int
        <5>1. p \in Int /\ m \in Int
          BY <1>3, <1>5, <4>2, PaidOutTyped, RowsAre
        <5>2. t2 \in Int
          <6>1. t2 = Money(Issued \ {r}, Nat, Whys)
            BY <1>10, <4>2
          <6> QED
            BY <1>3, <6>1, MoneyTyped
        <5>3. c2 \in Int
          <6>1. (TablesTyped => Collected(Issued) \in Int)'
            BY CollectedTyped, PTL
          <6> QED
            BY <1>9, <4>2, <6>1
        <5> QED
          BY <5>1, <5>2, <5>3
      <4>5. t2 = c2 - p
        BY <4>3, <4>4
      <4> QED
        BY <3>1, <4>2, <4>5 DEF PaidIsCollected
    <3>3. CASE r \notin Issued
      <4>1. Issued' = Issued
        BY <1>7, <3>3
      <4>2. Collected(Issued)' = Collected(Issued)
        <5>1. PICK R, g, h : /\ R = Issued
                             /\ g = [c \in DOMAIN receipts |-> receipts[c].amount]
                             /\ h = [c \in DOMAIN receipts' |-> receipts'[c].amount]
          OBVIOUS
        <5>2. h = g
          BY <1>7, <5>1
        <5>3. Collected(Issued)' = SumFunctionOnSet(h, R)
          BY <4>1, <5>1 DEF Collected
        <5>4. Collected(Issued) = SumFunctionOnSet(g, R)
          BY <5>1 DEF Collected
        <5> QED
          BY <5>2, <5>3, <5>4
      <4> QED
        BY <1>14, <2>4, <3>1, <3>3, <4>2 DEF PaidIsCollected
    <3> QED
      BY <3>2, <3>3
  <2> QED
    BY <1>12, <2>1, <2>2, <2>3, <2>4 DEF PaidIsCollected
<1>17. VoidUnwindsReceipt'
  <2>1. VoidUnwindsReceipt
    BY <1>3 DEF Ledger
  <2>2. CASE Raced(VoidRaces)
    BY <1>11, <2>2 DEF VoidUnwindsReceipt, Raced, VoidRaces, HandingBack
  <2>3. CASE q.overtaken \cap ({"approve_void"} \cup HandingBack) # {}
    <3>1. PICK by \in q.overtaken : by \in {"approve_void"} \cup HandingBack
      BY <2>3
    <3>2. <<op, by>> \in VoidRaces
      BY <1>1, <3>1 DEF VoidRaces
    <3>3. <<op, by>> \in raced'
      BY <1>11, <3>2 DEF Remembered
    <3> QED
      BY <3>2, <3>3 DEF VoidUnwindsReceipt, Raced, VoidRaces, HandingBack
  <2>4. CASE /\ q.overtaken \cap ({"approve_void"} \cup HandingBack) = {}
             /\ \A c \in DOMAIN receipts \ Issued :
                   SumRows({i \in DOMAIN rows : rows[i].receipt = c}) = 0
    <3>1. r \in Issued /\ Mirrored(r) = DOMAIN f
      BY <1>1, <1>2, <1>3, <2>4 DEF Sound, ReceiptSeen, ListSeen
    <3>2. ASSUME NEW c \in DOMAIN receipts' \ Issued'
          PROVE  SumRows({i \in DOMAIN rows : rows[i].receipt = c})' = 0
      <4>1. CASE c = r
        BY <1>10, <3>1, <4>1
      <4>2. CASE c # r
        <5>1. c \in DOMAIN receipts \ Issued
          BY <1>7, <4>2
        <5>2. SumStays(c)
          BY <1>10, <4>2
        <5> QED
          BY <2>4, <5>1, <5>2 DEF SumStays
      <4> QED
        BY <4>1, <4>2
    <3> QED
      BY <3>2 DEF VoidUnwindsReceipt
  <2> QED
    BY <2>1, <2>2, <2>3, <2>4 DEF VoidUnwindsReceipt
<1>18. RowsTell'
  <2>1. RowsTell
    BY <1>3 DEF Ledger
  <2>2. ASSUME NEW i \in DOMAIN rows'
        PROVE  /\ rows'[i].why = "payment" => rows'[i].amount > 0
               /\ rows'[i].why \in {"return", "refund"} => rows'[i].amount < 0
               /\ rows'[i].why = "void" \/ rows'[i].reversed => rows'[i].receipt \notin Issued'
    <3>1. CASE i \in DOMAIN rows
      <4>1. /\ rows[i].why = "payment" => rows[i].amount > 0
            /\ rows[i].why \in {"return", "refund"} => rows[i].amount < 0
            /\ rows[i].why = "void" \/ rows[i].reversed => rows[i].receipt \notin Issued
        BY <2>1, <3>1 DEF RowsTell
      <4>2. /\ rows'[i].receipt = rows[i].receipt
            /\ rows'[i].amount = rows[i].amount /\ rows'[i].why = rows[i].why
            /\ rows'[i].reversed => rows[i].reversed \/ rows[i].receipt = r
        BY <1>8, <3>1
      <4> QED
        BY <1>7, <4>1, <4>2
    <3>2. CASE i \notin DOMAIN rows
      <4>1. rows'[i].why = "void" /\ rows'[i].receipt = r
        BY <1>8, <3>2
      <4> QED
        BY <1>7, <4>1
    <3> QED
      BY <3>1, <3>2
  <2> QED
    BY <2>2 DEF RowsTell
<1>19. ReceiptsWhole'
  <2>1. ReceiptsWhole
    BY <1>3 DEF Ledger
  <2> QED
    BY <1>7, <1>10, <2>1 DEF ReceiptsWhole
<1>20. DepositsTell' /\ DepositSettledOnce'
  <2>1. DepositSettledOnce /\ DepositsTell
    BY <1>3 DEF Ledger
  <2> QED
    BY <1>2, <1>11, <2>1 DEF DepositSettledOnce, DepositsTell, Raced
<1>21. Ledger'
  BY <1>9, <1>16, <1>17, <1>18, <1>19, <1>20 DEF Ledger
<1>22. Grows(op)
  BY <1>1, <1>2, <1>7, <1>8 DEF Grows
<1> QED
  BY <1>4, <1>11, <1>15, <1>21, <1>22, CommitKeeps

-----------------------------------------------------------------------------
(* The invariant, and what it says. *)

LEMMA InitInv == Init => Inv
<1> SUFFICES ASSUME Init PROVE Inv
  OBVIOUS
<1>1. /\ charges = Quote /\ receipts = <<>> /\ rows = <<>> /\ discounts = <<>> /\ carried = 0
      /\ returns = <<>> /\ refunds = <<>> /\ deposits = <<>>
      /\ req = [s \in Sessions |-> Idle] /\ raced = {}
  BY DEF Init
<1>2. DOMAIN rows = {} /\ DOMAIN receipts = {} /\ DOMAIN deposits = {} /\ DOMAIN refunds = {}
      /\ DOMAIN returns = {}
  BY <1>1
<1>3. TablesTyped
  BY <1>1, <1>2, ConstantsAssumption DEF TablesTyped
<1>4. ASSUME NEW s \in Sessions PROVE Sound(req[s]) /\ Fits(req[s]) /\ ~Allocating(s)
  <2>1. PICK q : q = req[s]
    OBVIOUS
  <2>2. q.op = "idle" /\ ~q.spread /\ IsRequest(q) /\ Formed(q)
    BY <1>1, <2>1, IdleIs
  <2>3. Apt(q) /\ ReceiptSeen(q) /\ ListSeen(q)
    BY <2>2 DEF Apt, ReceiptSeen, ListSeen, HandingBack, Decisions, Settling
  <2>4. RefundSeen(q) /\ DepositSeen(q) /\ CreditSeen(q) /\ Fits(q)
    BY <2>2 DEF RefundSeen, DepositSeen, CreditSeen, Fits, Decisions, Settling
  <2> QED
    BY <2>1, <2>2, <2>3, <2>4 DEF Sound, Allocating
<1>5. OneByOne
  BY <1>4 DEF OneByOne
<1>6. TotalPaid = 0 /\ \A l : Allocated(l) = 0
  <2>1. LiveRows = {} /\ \A l : {i \in LiveRows : rows[i].line = l} = {}
    BY <1>2 DEF LiveRows
  <2>2. SumRows({}) = 0
    BY SumFirst, FS_EmptySet DEF SumRows
  <2> QED
    BY <2>1, <2>2 DEF TotalPaid, Allocated
<1>7. Collected(Issued) = 0 /\ PaidOut = 0
  <2>1. Issued = {} /\ Executed = {}
    BY <1>2 DEF Issued, Executed
  <2>2. \A g : SumFunctionOnSet(g, {}) = 0
    BY SumFirst, FS_EmptySet
  <2>3. Total(returns) = 0
    BY <1>2, <2>2, SumIsOnSet DEF Total
  <2>4. Collected(Issued) = 0
    BY <2>1, <2>2 DEF Collected
  <2>5. SumFunctionOnSet([f \in DOMAIN refunds |-> refunds[f].amount], Executed) = 0
    BY <2>1, <2>2
  <2> QED
    BY <2>3, <2>4, <2>5 DEF PaidOut
<1>8. LinesKept
  <2>1. \A l \in DOMAIN charges : Allocated(l) <= charges[l].gross
    <3>1. \A l \in DOMAIN charges : charges[l].gross \in Nat \ {0}
      BY <1>3, LinesAre
    <3> QED
      BY <1>6, <3>1
  <2> QED
    BY <1>4, <2>1 DEF LinesKept
<1>9. Ledger
  <2>1. PaidIsCollected
    BY <1>6, <1>7 DEF PaidIsCollected
  <2>2. VoidUnwindsReceipt /\ DepositSettledOnce
    BY <1>2 DEF VoidUnwindsReceipt, DepositSettledOnce
  <2>3. RowsTell /\ ReceiptsWhole /\ DepositsTell
    BY <1>2 DEF RowsTell, ReceiptsWhole, DepositsTell
  <2> QED
    BY <1>3, <2>1, <2>2, <2>3 DEF Ledger
<1>10. req = [s \in Sessions |-> req[s]]
  BY <1>1
<1> QED
  BY <1>1, <1>4, <1>5, <1>8, <1>9, <1>10, InvIs

LEMMA InvStays == ASSUME Inv, UNCHANGED vars PROVE Inv'
<1>1. /\ Ledger /\ LinesKept /\ OneByOne /\ raced \in SUBSET (Ops \X Ops)
      /\ req = [t \in Sessions |-> req[t]] /\ \A t \in Sessions : Sound(req[t])
  BY InvIs
<1>2. /\ UNCHANGED <<charges, receipts, rows, discounts, carried, returns, refunds, deposits, raced>>
      /\ req' = req
  BY DEF vars
<1>3. Ledger' /\ raced' \in SUBSET (Ops \X Ops)
  BY <1>1, <1>2, TablesStay
<1>4. ASSUME NEW t \in Sessions PROVE Sound(req[t])'
  <2>1. PICK r : r = req[t]
    OBVIOUS
  <2>2. Sound(r)
    BY <1>1, <2>1
  <2>3. IsRequest(r)' /\ Formed(r)'
    BY <2>2 DEF Sound, IsRequest, Formed
  <2>4. Apt(r)' /\ ReceiptSeen(r)' /\ ListSeen(r)' /\ RefundSeen(r)' /\ DepositSeen(r)'
    BY <1>2, <2>2, TablesStay DEF Sound
  <2>5. CreditSeen(r)'
    BY <1>2, <2>2, TablesStay DEF Sound, CreditSeen
  <2>6. Sound(r)'
    BY <2>3, <2>4, <2>5 DEF Sound
  <2> QED
    BY <1>2, <2>1, <2>6 DEF Sound, IsRequest, Formed, Apt, ReceiptSeen, ListSeen, RefundSeen,
                                       DepositSeen, CreditSeen
<1>5. OneByOne'
  BY <1>1, <1>2 DEF OneByOne, Allocating, Serving
<1>6. LinesKept'
  <2>1. (HandBackVoided' <=> HandBackVoided) /\ (YearsRaced' <=> YearsRaced)
    BY <1>2, RowsStay, TablesStay
  <2>2. \A l : Allocated(l)' = Allocated(l)
    BY <1>2, RowsStay
  <2>3. CASE HandBackVoided \/ YearsRaced
    BY <2>1, <2>3 DEF LinesKept
  <2>4. CASE ~HandBackVoided /\ ~YearsRaced
    <3>1. (\A l \in DOMAIN charges : Allocated(l) <= charges[l].gross)'
      BY <1>1, <1>2, <2>2, <2>4 DEF LinesKept
    <3>2. ASSUME NEW t \in Sessions PROVE Fits(req[t])'
      <4>1. PICK r : r = req[t]
        OBVIOUS
      <4>2. Fits(r)
        BY <1>1, <2>4, <4>1 DEF LinesKept
      <4>3. Fits(r)'
        BY <1>2, <4>2, TablesStay
      <4> QED
        BY <1>2, <4>1, <4>3 DEF Fits
    <3> QED
      BY <3>1, <3>2 DEF LinesKept
  <2> QED
    BY <2>3, <2>4
<1>7. (req = [t \in Sessions |-> req[t]])'
  BY <1>1, <1>2
<1> QED
  BY <1>3, <1>4, <1>5, <1>6, <1>7, InvIsNext

LEMMA NextInv == Inv /\ [Next]_vars => Inv'
<1> SUFFICES ASSUME Inv, [Next]_vars PROVE Inv'
  OBVIOUS
<1>1. ASSUME NEW s \in Sessions, PaymentNewView(s) PROVE Inv'
  <2>1. CASE \E y \in Years, a \in Payments : ReadPayment(s, y, a)
    BY <2>1, ReadPaymentKeeps
  <2>2. CASE SpreadPayment(s)
    BY <2>2, SpreadPaymentKeeps
  <2>3. CASE WritePayment(s)
    BY <2>3, WritePaymentKeeps
  <2> QED
    BY <1>1, <2>1, <2>2, <2>3 DEF PaymentNewView
<1>2. ASSUME NEW s \in Sessions, HandleVoid(s) PROVE Inv'
  <2>1. CASE \E r \in DOMAIN receipts : ReadApproveVoid(s, r)
    BY <2>1, ReadApproveVoidKeeps
  <2>2. CASE SpreadApproveVoid(s)
    BY <2>2, SpreadApproveVoidKeeps
  <2>3. CASE WriteApproveVoid(s)
    BY <2>3, WriteApproveVoidKeeps
  <2> QED
    BY <1>2, <2>1, <2>2, <2>3 DEF HandleVoid
<1>3. ASSUME NEW s \in Sessions, HandleRefund(s) PROVE Inv'
  <2>1. CASE RefundableRow /\ \E a \in Refunds \cup {FullAmount} : ReadRequestRefund(s, a)
    BY <2>1, ReadRequestRefundKeeps
  <2>2. CASE WriteRequestRefund(s)
    BY <2>2, WriteRequestRefundKeeps
  <2>3. CASE ReadReturnCredit(s)
    BY <2>3, ReadReturnCreditKeeps
  <2>4. CASE SpreadReturnCredit(s)
    BY <2>4, SpreadReturnCreditKeeps
  <2>5. CASE WriteReturnCredit(s)
    BY <2>5, WriteReturnCreditKeeps
  <2> QED
    BY <1>3, <2>1, <2>2, <2>3, <2>4, <2>5 DEF HandleRefund
<1>4. ASSUME NEW s \in Sessions, RefundTransition(s) PROVE Inv'
  <2>1. ASSUME NEW f \in DOMAIN refunds,
               ReadDecideRefund(s, "approve_refund", f) \/ ReadDecideRefund(s, "reject_refund", f)
        PROVE  Inv'
    <3>1. PICK op \in {"approve_refund", "reject_refund"} : ReadDecideRefund(s, op, f)
      BY <2>1
    <3> QED
      BY <3>1, ReadDecideRefundKeeps
  <2>2. ASSUME NEW f \in DOMAIN refunds, ReadExecuteRefund(s, f) PROVE Inv'
    BY <2>2, ReadExecuteRefundKeeps
  <2>3. CASE WriteApproveRefund(s) \/ WriteRejectRefund(s)
    <3>1. PICK op \in {"approve_refund", "reject_refund"}, status \in {"APPROVED", "REJECTED"} :
              WriteDecideRefund(s, op, status)
      BY <2>3 DEF WriteApproveRefund, WriteRejectRefund
    <3> QED
      BY <3>1, WriteDecideRefundKeeps
  <2>4. CASE SpreadExecuteRefund(s)
    BY <2>4, SpreadExecuteRefundKeeps
  <2>5. CASE WriteExecuteRefund(s)
    BY <2>5, WriteExecuteRefundKeeps
  <2> QED
    BY <1>4, <2>1, <2>2, <2>3, <2>4, <2>5 DEF RefundTransition
<1>5. ASSUME NEW s \in Sessions, SettleDeposit(s) PROVE Inv'
  <2>1. ASSUME NEW l \in DepositLines, NEW d \in Deductions, ReadReturnDeposit(s, l, d) PROVE Inv'
    BY <2>1, ReadReturnDepositKeeps
  <2>2. ASSUME NEW l \in DepositLines, ReadForfeitDeposit(s, l) PROVE Inv'
    BY <2>2, ReadForfeitDepositKeeps
  <2>3. CASE WriteReturnDeposit(s)
    BY <2>3, WriteReturnDepositKeeps
  <2>4. CASE WriteForfeitDeposit(s)
    BY <2>4, WriteForfeitDepositKeeps
  <2> QED
    BY <1>5, <2>1, <2>2, <2>3, <2>4 DEF SettleDeposit
<1>6. ASSUME NEW s \in Sessions, DiscountsView(s) PROVE Inv'
  <2>1. CASE \E a \in Discounts : ReadGrantDiscount(s, a)
    BY <2>1, ReadGrantDiscountKeeps
  <2>2. CASE WriteGrantDiscount(s)
    BY <2>2, WriteGrantDiscountKeeps
  <2> QED
    BY <1>6, <2>1, <2>2 DEF DiscountsView
<1>7. ASSUME NEW s \in Sessions, Rollback(s) PROVE Inv'
  BY <1>7, RollbackKeeps
<1>8. CASE ExtraFeesView
  BY <1>8, ChargeKeeps DEF ExtraFeesView
<1>9. CASE CarryForward
  BY <1>9, CarryForwardKeeps
<1>10. CASE UNCHANGED vars
  BY <1>10, InvStays
<1> QED
  BY <1>1, <1>2, <1>3, <1>4, <1>5, <1>6, <1>7, <1>8, <1>9, <1>10 DEF Next

(***************************************************************************)
(* In every behaviour, whatever the rows are summed over, a request in     *)
(* flight is about rows that are there, and what it was judged by still    *)
(* holds where nothing overtook it.                                        *)
(***************************************************************************)
THEOREM Invariance == Spec => []Inv
<1>1. Init => Inv
  BY InitInv
<1>2. Inv /\ [Next]_vars => Inv'
  BY NextInv
<1> QED
  BY <1>1, <1>2, PTL DEF Spec

LEMMA InvTyped == Inv => TypeOK
  BY DEF Inv, TablesTyped, RequestsTyped, TypeOK

LEMMA InvAddsUp == Inv => LedgerAddsUp
  BY DEF Inv, LinesKept, YearsRaced, LedgerAddsUp, NoOverAllocation

LEMMA InvSettled == Inv => SettlementsStand
  BY DEF Inv, SettlementsStand

(***************************************************************************)
(* Every table of the ledger and every request in flight keeps its type:   *)
(* an allocation names a receipt and a line that are there, and no row is  *)
(* of nothing (allocate, approve_void, _execute, _return_credit).          *)
(***************************************************************************)
THEOREM TypeCorrect == Spec => []TypeOK
  BY Invariance, InvTyped, PTL

(***************************************************************************)
(* Whatever is paid, voided, refunded and returned, in any number and any  *)
(* interleaving: the paid column is the money of the receipts in force     *)
(* less what was handed back, and no line is paid above its gross, but in  *)
(* the races and the voids LedgerAddsUp names.                             *)
(***************************************************************************)
THEOREM AddsUp == Spec => []LedgerAddsUp
  BY Invariance, InvAddsUp, PTL

(***************************************************************************)
(* A deposit leaves one way, once, unless a settlement was written after   *)
(* another had overtaken it; and a voided receipt leaves nothing behind,   *)
(* but where a void crossed another or a hand-back as VoidUnwindsReceipt   *)
(* names it.                                                               *)
(***************************************************************************)
THEOREM SettlementsSettled == Spec => []SettlementsStand
  BY Invariance, InvSettled, PTL

-----------------------------------------------------------------------------
(* Money handed out. *)

LEMMA Reading ==
    \A s, op, on, amount, less :
        BeginLess(s, op, on, amount, less) => returns' = returns /\ refunds' = refunds
  BY DEF BeginLess

LEMMA Taking ==
    \A s, shares : Take(s, shares) => returns' = returns /\ refunds' = refunds
  BY DEF Take

LEMMA OnlyReturnCredit ==
    ASSUME Next
    PROVE  returns' = returns \/ \E s \in Sessions : WriteReturnCredit(s)
<1>1. ASSUME NEW s \in Sessions, PaymentNewView(s) PROVE returns' = returns
  BY <1>1, Reading, Taking DEF PaymentNewView, ReadPayment, Begin, SpreadPayment, WritePayment
<1>2. ASSUME NEW s \in Sessions, HandleVoid(s) PROVE returns' = returns
  BY <1>2, Reading DEF HandleVoid, ReadApproveVoid, Begin, SpreadApproveVoid, WriteApproveVoid
<1>3. ASSUME NEW s \in Sessions, HandleRefund(s)
      PROVE  returns' = returns \/ WriteReturnCredit(s)
  <2>1. ASSUME NEW a, ReadRequestRefund(s, a) PROVE returns' = returns
    BY <2>1, Reading DEF ReadRequestRefund, Begin
  <2>2. CASE WriteRequestRefund(s)
    BY <2>2 DEF WriteRequestRefund
  <2>3. CASE ReadReturnCredit(s) \/ SpreadReturnCredit(s)
    BY <2>3, Reading, Taking DEF ReadReturnCredit, Begin, SpreadReturnCredit
  <2> QED
    BY <1>3, <2>1, <2>2, <2>3 DEF HandleRefund
<1>4. ASSUME NEW s \in Sessions, RefundTransition(s) PROVE returns' = returns
  <2>1. ASSUME NEW f, \/ ReadDecideRefund(s, "approve_refund", f)
                      \/ ReadDecideRefund(s, "reject_refund", f)
                      \/ ReadExecuteRefund(s, f)
        PROVE  returns' = returns
    BY <2>1, Reading DEF ReadDecideRefund, ReadExecuteRefund, Begin
  <2>2. CASE WriteApproveRefund(s) \/ WriteRejectRefund(s)
    BY <2>2 DEF WriteApproveRefund, WriteRejectRefund, WriteDecideRefund
  <2>3. CASE SpreadExecuteRefund(s)
    BY <2>3, Taking DEF SpreadExecuteRefund
  <2>4. CASE WriteExecuteRefund(s)
    BY <2>4 DEF WriteExecuteRefund
  <2> QED
    BY <1>4, <2>1, <2>2, <2>3, <2>4 DEF RefundTransition
<1>5. ASSUME NEW s \in Sessions, SettleDeposit(s) \/ DiscountsView(s) \/ Rollback(s)
      PROVE  returns' = returns
  <2>1. CASE SettleDeposit(s)
    BY <2>1, Reading DEF SettleDeposit, ReadReturnDeposit, ReadForfeitDeposit, Begin,
                        WriteReturnDeposit, WriteForfeitDeposit
  <2>2. CASE DiscountsView(s)
    BY <2>2, Reading DEF DiscountsView, ReadGrantDiscount, Begin, WriteGrantDiscount
  <2>3. CASE Rollback(s)
    BY <2>3 DEF Rollback
  <2> QED
    BY <1>5, <2>1, <2>2, <2>3
<1>6. CASE ExtraFeesView \/ CarryForward
  BY <1>6 DEF ExtraFeesView, Charge, CarryForward
<1> QED
  BY <1>1, <1>2, <1>3, <1>4, <1>5, <1>6 DEF Next

LEMMA OnlyRefundsWritten ==
    ASSUME Next, refunds' # refunds
    PROVE  \E s \in Sessions :
               \/ WriteRequestRefund(s) \/ WriteExecuteRefund(s)
               \/ WriteApproveRefund(s) \/ WriteRejectRefund(s)
<1>1. ASSUME NEW s \in Sessions, PaymentNewView(s) PROVE refunds' = refunds
  BY <1>1, Reading, Taking DEF PaymentNewView, ReadPayment, Begin, SpreadPayment, WritePayment
<1>2. ASSUME NEW s \in Sessions, HandleVoid(s) PROVE refunds' = refunds
  BY <1>2, Reading DEF HandleVoid, ReadApproveVoid, Begin, SpreadApproveVoid, WriteApproveVoid
<1>3. ASSUME NEW s \in Sessions, HandleRefund(s)
      PROVE  refunds' = refunds \/ WriteRequestRefund(s)
  <2>1. ASSUME NEW a, ReadRequestRefund(s, a) PROVE refunds' = refunds
    BY <2>1, Reading DEF ReadRequestRefund, Begin
  <2>2. CASE WriteReturnCredit(s)
    BY <2>2 DEF WriteReturnCredit
  <2>3. CASE ReadReturnCredit(s) \/ SpreadReturnCredit(s)
    BY <2>3, Reading, Taking DEF ReadReturnCredit, Begin, SpreadReturnCredit
  <2> QED
    BY <1>3, <2>1, <2>2, <2>3 DEF HandleRefund
<1>4. ASSUME NEW s \in Sessions, RefundTransition(s)
      PROVE  \/ refunds' = refunds \/ WriteExecuteRefund(s)
             \/ WriteApproveRefund(s) \/ WriteRejectRefund(s)
  <2>1. ASSUME NEW f, \/ ReadDecideRefund(s, "approve_refund", f)
                      \/ ReadDecideRefund(s, "reject_refund", f)
                      \/ ReadExecuteRefund(s, f)
        PROVE  refunds' = refunds
    BY <2>1, Reading DEF ReadDecideRefund, ReadExecuteRefund, Begin
  <2>2. CASE SpreadExecuteRefund(s)
    BY <2>2, Taking DEF SpreadExecuteRefund
  <2> QED
    BY <1>4, <2>1, <2>2 DEF RefundTransition
<1>5. ASSUME NEW s \in Sessions, SettleDeposit(s) \/ DiscountsView(s) \/ Rollback(s)
      PROVE  refunds' = refunds
  <2>1. CASE SettleDeposit(s)
    BY <2>1, Reading DEF SettleDeposit, ReadReturnDeposit, ReadForfeitDeposit, Begin,
                        WriteReturnDeposit, WriteForfeitDeposit
  <2>2. CASE DiscountsView(s)
    BY <2>2, Reading DEF DiscountsView, ReadGrantDiscount, Begin, WriteGrantDiscount
  <2>3. CASE Rollback(s)
    BY <2>3 DEF Rollback
  <2> QED
    BY <1>5, <2>1, <2>2, <2>3
<1>6. CASE ExtraFeesView \/ CarryForward
  BY <1>6 DEF ExtraFeesView, Charge, CarryForward
<1> QED
  BY <1>1, <1>2, <1>3, <1>4, <1>5, <1>6 DEF Next

LEMMA CreditCleared ==
    ASSUME Inv, Inv', Next, NEW s \in Sessions, Serving(s, "return_credit"),
           returns' # returns, req'[s] = Idle, req[s].overtaken = {}
    PROVE  Balance' = 0
<1>1. WriteReturnCredit(s)
  <2>1. PICK t \in Sessions : WriteReturnCredit(t)
    BY OnlyReturnCredit
  <2>2. CASE t = s
    BY <2>1, <2>2
  <2>3. CASE t # s
    <3>1. PICK op : op = "return_credit"
      OBVIOUS
    <3>2. Serving(t, op) /\ Finish(t) /\ op \in Ops
      BY <2>1, <3>1 DEF WriteReturnCredit, Ops
    <3>3. Served(op, {t})
      BY <3>2, Finished
    <3>4. Resembles(req'[s], req[s])
      <4>1. PICK me : me = {t}
        OBVIOUS
      <4>2. me \in SUBSET Sessions /\ s \in Sessions \ me /\ Served(op, me) /\ op \in Ops
        BY <2>3, <3>2, <3>3, <4>1
      <4> QED
        BY <4>2, RequestsAfter
    <3>5. req'[s].op = "idle"
      <4>1. PICK q : q = req'[s]
        OBVIOUS
      <4>2. q = Idle
        BY <4>1
      <4> QED
        BY <4>1, <4>2, IdleIs
    <3> QED
      BY <3>4, <3>5 DEF Resembles, Serving
  <2> QED
    BY <2>2, <2>3
<1>2. PICK a, f, why : a = req[s].amount /\ f = req[s].shares /\ why = "return"
  OBVIOUS
<1>3. why \in {"return", "refund"} /\ HandingOut(s, why)
  BY <1>1, <1>2 DEF HandingOut, WriteReturnCredit, Serving, HandingBack
<1>4. TablesTyped /\ TablesTyped' /\ Sound(req[s]) /\ RowsTell
  BY InvIs, InvIsNext DEF Ledger
<1>5. a = -Balance /\ req[s].op = "return_credit"
  BY <1>2, <1>4 DEF Sound, CreditSeen, Serving
<1>6. TotalPaid' = TotalPaid - a
  <2>2. \A x \in DOMAIN f : rows[x].receipt \in Issued
    BY <1>2, <1>3, <1>4, <1>5 DEF Sound, ReceiptSeen, HandingOut
  <2> QED
    BY <1>2, <1>3, <1>4, <2>2, HandBackMoves
<1>7. UNCHANGED <<charges, discounts, carried>>
  BY <1>1 DEF WriteReturnCredit
<1>8. Balance' = TotalDue - Total(discounts) - TotalPaid' - carried
  <2>1. TotalDue' = TotalDue /\ Total(discounts)' = Total(discounts)
    BY <1>7 DEF TotalDue, Total
  <2> QED
    BY <1>7, <2>1 DEF Balance
<1>9. PICK d, e, p, p2, c : /\ d = TotalDue /\ e = Total(discounts) /\ p = TotalPaid
                            /\ p2 = TotalPaid' /\ c = carried
  OBVIOUS
<1>10. d \in Int /\ e \in Int /\ p \in Int /\ c \in Int
  BY <1>4, <1>9, AmountsTyped DEF TablesTyped
<1>11. Balance = d - e - p - c /\ Balance' = d - e - p2 - c /\ p2 = p - a /\ a = -Balance
  BY <1>5, <1>6, <1>8, <1>9 DEF Balance
<1>12. d - e - p2 - c = 0
  <2>1. p2 = p - (-(d - e - p - c))
    BY <1>11
  <2> QED
    BY <1>10, <2>1
<1> QED
  BY <1>11, <1>12

LEMMA DecisionKept ==
    ASSUME Inv, Next, NEW f \in DOMAIN refunds, refunds[f].status \in {"REJECTED", "EXECUTED"},
           refunds'[f] # refunds[f]
    PROVE  \E s \in Sessions : req[s].on = f /\ req[s].overtaken \cap Decisions # {}
<1>1. PICK s \in Sessions : \/ WriteRequestRefund(s) \/ WriteExecuteRefund(s)
                           \/ WriteApproveRefund(s) \/ WriteRejectRefund(s)
  <2>1. refunds' # refunds
    OBVIOUS
  <2> QED
    BY <2>1, OnlyRefundsWritten
<1>2. PICK q : q = req[s]
  OBVIOUS
<1>3. TablesTyped /\ Sound(q)
  BY <1>2, InvIs DEF Ledger
<1>4. ~WriteRequestRefund(s)
  <2> SUFFICES ASSUME WriteRequestRefund(s) PROVE FALSE
    OBVIOUS
  <2>1. PICK rec, table, after : /\ rec = [amount |-> req[s].amount, status |-> "REQUESTED"]
                                 /\ table = refunds /\ after = Append(table, rec)
    OBVIOUS
  <2>2. refunds' = after /\ Serving(s, "request_refund")
    BY <2>1 DEF WriteRequestRefund
  <2>3. rec \in Refund
    <3>1. req[s].amount \in Nat \ {0}
      BY <1>2, <1>3, <2>2 DEF Sound, IsRequest, Apt, Serving
    <3> QED
      BY <2>1, <3>1 DEF Refund
  <2>4. table \in Seq(Refund)
    BY <1>3, <2>1 DEF TablesTyped
  <2>5. \A g \in DOMAIN table : after[g] = table[g]
    BY <2>1, <2>3, <2>4, RowAdded
  <2> QED
    BY <2>1, <2>2, <2>5
<1>5. /\ q.op \in Decisions
      /\ \E status : refunds' = [refunds EXCEPT ![q.on].status = status]
  <2>1. CASE WriteExecuteRefund(s)
    BY <1>2, <2>1 DEF WriteExecuteRefund, Serving, Decisions
  <2>2. CASE WriteApproveRefund(s) \/ WriteRejectRefund(s)
    BY <1>2, <2>2 DEF WriteApproveRefund, WriteRejectRefund, WriteDecideRefund, Serving, Decisions
  <2> QED
    BY <1>1, <1>4, <2>1, <2>2
<1>6. q.on = f
  <2>1. PICK status : refunds' = [refunds EXCEPT ![q.on].status = status]
    BY <1>5
  <2> QED
    BY <2>1
<1>7. q.overtaken \cap Decisions # {}
  BY <1>3, <1>5, <1>6 DEF Sound, RefundSeen
<1> QED
  BY <1>2, <1>6, <1>7

(***************************************************************************)
(* A credit return leaves the account at zero, and a refund rejected or    *)
(* executed stays so, but for what was committed since the request that    *)
(* moves the money or the refund read it (_return_credit, _execute).       *)
(***************************************************************************)
THEOREM Movements == Spec => MovementsStand
<1>1. Inv /\ Inv' /\ [Next]_vars
          => [\A s \in Sessions :
                 Serving(s, "return_credit") /\ returns' # returns /\ req'[s] = Idle
                     => Balance' = 0 \/ req[s].overtaken # {}]_vars
  <2> SUFFICES ASSUME Inv, Inv', Next, NEW s \in Sessions, Serving(s, "return_credit"),
                      returns' # returns, req'[s] = Idle, req[s].overtaken = {}
               PROVE  Balance' = 0
    OBVIOUS
  <2> QED
    BY CreditCleared
<1>2. Inv /\ [Next]_vars
          => [\A f \in DOMAIN refunds :
                 refunds[f].status \in {"REJECTED", "EXECUTED"} /\ refunds'[f] # refunds[f]
                     => \E s \in Sessions : req[s].on = f /\ req[s].overtaken \cap Decisions # {}]_vars
  <2> SUFFICES ASSUME Inv, Next, NEW f \in DOMAIN refunds,
                      refunds[f].status \in {"REJECTED", "EXECUTED"}, refunds'[f] # refunds[f]
               PROVE  \E s \in Sessions : req[s].on = f /\ req[s].overtaken \cap Decisions # {}
    OBVIOUS
  <2> QED
    BY DecisionKept
<1>3. Spec => [][Next]_vars
  BY DEF Spec
<1> QED
  BY <1>1, <1>2, <1>3, Invariance, PTL DEF MovementsStand, CreditReturnClears, DecisionStands

-----------------------------------------------------------------------------
(* Opening balances, for every set of balances, users and requests in flight. *)

(***************************************************************************)
(* Every request but a proposal names a balance.                           *)
(***************************************************************************)
RequestsAim ==
    \A s \in Callers : Busy(s) /\ call[s].op # "propose" => call[s].balance \in Balances

(***************************************************************************)
(* Every stored row passed the table's CHECK constraints.                  *)
(***************************************************************************)
RowsAdmitted == \A b \in Balances : Admits(row[b])

Typed == BalanceTypeOK /\ RequestsAim

-----------------------------------------------------------------------------
(* Types. *)

(***************************************************************************)
(* A request built from well-typed arguments is a Request.                 *)
(***************************************************************************)
LEMMA AskTyped ==
    ASSUME NEW op \in BalanceOps, NEW b \in OrNone(Balances), NEW u \in Users
    PROVE  Ask(op, b, u) \in Request
  BY DEF Ask, Request, Directions, OrNone

(***************************************************************************)
(* Loading an instance keeps the types.                                    *)
(***************************************************************************)
LEMMA BeginTyped ==
    ASSUME Typed, NEW s \in Callers, NEW q \in Request, BeginCall(s, q),
           q.op # "propose" => q.balance \in Balances
    PROVE  Typed'
<1>1. BalanceTypeOK'
  BY DEF Typed, BalanceTypeOK, BeginCall
<1>2. RequestsAim'
  BY DEF Typed, BalanceTypeOK, RequestsAim, BeginCall, Busy
<1> QED
  BY <1>1, <1>2 DEF Typed

(***************************************************************************)
(* A commit on balance b keeps the types of the requests and the history.  *)
(***************************************************************************)
LEMMA FinishTyped ==
    ASSUME Typed, NEW s \in Callers, NEW b \in Balances, Busy(s), EndCall(s, b)
    PROVE  /\ call' \in [Callers -> Request \cup {NoCall}]
           /\ crossed' \subseteq Balances
           /\ periodClosed' \in BOOLEAN
           /\ RequestsAim'
<1>1. ASSUME NEW t \in Callers, Busy(t)
      PROVE  /\ [call[t] EXCEPT !.fresh = FALSE] \in Request
             /\ [call[t] EXCEPT !.fresh = FALSE].op = call[t].op
             /\ [call[t] EXCEPT !.fresh = FALSE].balance = call[t].balance
  <2>1. call[t] \in Request
    BY <1>1 DEF Typed, BalanceTypeOK, Busy
  <2> QED
    BY <2>1 DEF Request
<1>2. call' \in [Callers -> Request \cup {NoCall}]
  BY <1>1 DEF EndCall, Typed, BalanceTypeOK
<1>3. RequestsAim'
  BY <1>1 DEF EndCall, RequestsAim, Typed, BalanceTypeOK, Busy
<1> QED
  BY <1>2, <1>3 DEF EndCall, Typed, BalanceTypeOK

(***************************************************************************)
(* Each column function keeps a row well typed.                            *)
(***************************************************************************)
LEMMA CommitsTyped ==
    ASSUME NEW r \in Row, NEW q \in Request, NEW n \in Nat
    PROVE  /\ Review(r, q) \in Row
           /\ Approve(r, q) \in Row
           /\ Reject(r) \in Row
           /\ PostTo(r, n) \in Row
           /\ CarriedForward(r, q) \in Row
           /\ MarkRefundDue(r, q) \in Row
           /\ Pay(r) \in Row
           /\ Reopen(r) \in Row
<1> USE DEF Row, Request, OrNone
<1>1. {"REVIEWED", "APPROVED", "REJECTED", "POSTED", "APPLIED", "REFUND_DUE", "REFUNDED"}
        \subseteq Statuses
  BY DEF Statuses, CreditOutcomes
<1>2. Review(r, q) \in Row
  BY <1>1 DEF Review
<1>3. Approve(r, q) \in Row /\ Reject(r) \in Row
  BY <1>1 DEF Approve, Reject
<1>4. PostTo(r, n) \in Row /\ Pay(r) \in Row /\ Reopen(r) \in Row
  BY <1>1 DEF PostTo, Pay, Reopen
<1>5. CarriedForward(r, q) \in Row /\ MarkRefundDue(r, q) \in Row
  BY <1>1 DEF CarriedForward, MarkRefundDue
<1> QED
  BY <1>2, <1>3, <1>4, <1>5

WriteOps == BalanceOps \ {"propose"}

(***************************************************************************)
(* What a commit other than a proposal does, whichever operation it is.    *)
(***************************************************************************)
LEMMA WriteTyped ==
    ASSUME Typed, NEW s \in Callers, NEW op \in WriteOps, Write(s, op)
    PROVE  /\ call[s] \in Request
           /\ Busy(s)
           /\ call[s].balance \in Balances
           /\ row[call[s].balance] \in Row
           /\ NewRow(s) \in Row
           /\ row' \in [Balances -> Row]
<1>1. call[s] \in Request /\ Busy(s) /\ call[s].op = op
  BY DEF Typed, BalanceTypeOK, Write, Busy, NoCall, WriteOps, BalanceOps
<1>2. call[s].balance \in Balances
  BY <1>1 DEF Typed, RequestsAim, WriteOps
<1>3. row[call[s].balance] \in Row /\ lines[call[s].balance] + 1 \in Nat
  BY <1>2 DEF Typed, BalanceTypeOK
<1>4. NewRow(s) \in Row
  <2>1. CASE op = "review"
    BY <1>1, <1>3, <2>1, CommitsTyped DEF NewRow
  <2>2. CASE op = "approve"
    BY <1>1, <1>3, <2>2, CommitsTyped DEF NewRow
  <2>3. CASE op = "reject"
    BY <1>1, <1>3, <2>3, CommitsTyped DEF NewRow
  <2>4. CASE op = "post"
    BY <1>1, <1>3, <2>4, CommitsTyped DEF NewRow
  <2>5. CASE op = "carry_forward"
    BY <1>1, <1>3, <2>5, CommitsTyped DEF NewRow
  <2>6. CASE op = "mark_refund_due"
    BY <1>1, <1>3, <2>6, CommitsTyped DEF NewRow
  <2>7. CASE op = "pay_refund_due"
    BY <1>1, <1>3, <2>7, CommitsTyped DEF NewRow
  <2>8. CASE op = "reverse_refund_payout"
    BY <1>1, <1>3, <2>8, CommitsTyped DEF NewRow
  <2> QED
    BY <2>1, <2>2, <2>3, <2>4, <2>5, <2>6, <2>7, <2>8 DEF WriteOps, BalanceOps
<1>5. row' \in [Balances -> Row]
  BY <1>2, <1>4 DEF Write, Typed, BalanceTypeOK
<1> QED
  BY <1>1, <1>2, <1>3, <1>4, <1>5

(***************************************************************************)
(* Requests are loaded with well-typed arguments.                          *)
(***************************************************************************)
LEMMA ReadsTyped ==
    ASSUME Typed, NEW s \in Callers, Reads(s)
    PROVE  Typed'
<1>1. ASSUME NEW u \in Officers, NEW d \in Directions, NEW src \in OrNone(SourceRows),
             ReadPropose(s, u, d, src)
      PROVE  Typed'
  <2> DEFINE q == [Ask("propose", None, u) EXCEPT !.direction = d, !.source = src]
  <2>1. Ask("propose", None, u) \in Request
    BY AskTyped DEF BalanceOps, OrNone, Users
  <2>2. q \in Request /\ q.op = "propose"
    BY <2>1 DEF Request, Ask
  <2> QED
    BY <1>1, <2>2, BeginTyped DEF ReadPropose
<1>2. ASSUME NEW b \in Balances, NEW u \in Users, NEW e \in OrNone(Enrollments),
             ReadReview(s, b, u, e)
      PROVE  Typed'
  <2> DEFINE q == [Ask("review", b, u) EXCEPT !.enrollment = e]
  <2>1. Ask("review", b, u) \in Request
    BY AskTyped DEF BalanceOps, OrNone
  <2>2. q \in Request /\ q.balance = b
    BY <2>1 DEF Request, Ask
  <2> QED
    BY <1>2, <2>2, BeginTyped DEF ReadReview
<1>3. ASSUME NEW b \in Balances, NEW u \in Users, NEW e \in Enrollments,
             ReadCarryForward(s, b, u, e)
      PROVE  Typed'
  <2> DEFINE q == [Ask("carry_forward", b, u) EXCEPT !.enrollment = e]
  <2>1. Ask("carry_forward", b, u) \in Request
    BY AskTyped DEF BalanceOps, OrNone
  <2>2. q \in Request /\ q.balance = b
    BY <2>1 DEF Request, Ask, OrNone
  <2> QED
    BY <1>3, <2>2, BeginTyped DEF ReadCarryForward
<1>4. ASSUME NEW b \in Balances, NEW u \in Users, ReadReverse(s, b, u)
      PROVE  Typed'
  <2>1. PICK i \in Live(b) :
             BeginCall(s, [Ask("reverse_refund_payout", b, u) EXCEPT !.payout = i])
    BY <1>4 DEF ReadReverse
  <2> DEFINE q == [Ask("reverse_refund_payout", b, u) EXCEPT !.payout = i]
  <2>2. i \in Nat
    BY <2>1 DEF Live, Typed, BalanceTypeOK
  <2>3. Ask("reverse_refund_payout", b, u) \in Request
    BY AskTyped DEF BalanceOps, OrNone
  <2>4. q \in Request /\ q.balance = b
    BY <2>2, <2>3 DEF Request, Ask
  <2> QED
    BY <2>1, <2>4, BeginTyped
<1>5. ASSUME NEW b \in Balances, NEW u \in Users, NEW op \in BalanceOps, BeginCall(s, Ask(op, b, u))
      PROVE  Typed'
  <2>1. Ask(op, b, u) \in Request /\ Ask(op, b, u).balance = b
    BY AskTyped DEF OrNone, Ask
  <2> QED
    BY <1>5, <2>1, BeginTyped
<1>6. ASSUME NEW b \in Balances, NEW u \in Users,
             \/ ReadApprove(s, b, u)
             \/ ReadReject(s, b, u)
             \/ ReadPost(s, b, u)
             \/ ReadMarkRefundDue(s, b, u)
             \/ ReadPayRefund(s, b, u)
      PROVE  Typed'
  BY <1>5, <1>6 DEF ReadApprove, ReadReject, ReadPost, ReadMarkRefundDue, ReadPayRefund, BalanceOps
<1> QED
  BY <1>1, <1>2, <1>3, <1>4, <1>6 DEF Reads

(***************************************************************************)
(* Commits and rollbacks keep the types.                                   *)
(***************************************************************************)
LEMMA WritesTyped ==
    ASSUME Typed, NEW s \in Callers, Writes(s)
    PROVE  Typed'
<1>1. ASSUME NEW b \in Balances, WritePropose(s, b)
      PROVE  Typed'
  <2>1. call[s] \in Request /\ Busy(s)
    BY <1>1 DEF WritePropose, Typed, BalanceTypeOK, Busy, NoCall
  <2>2. row' \in [Balances -> Row]
    BY <1>1, <2>1 DEF WritePropose, Typed, BalanceTypeOK, Request, Row, Absent, Statuses, OrNone
  <2> QED
    BY <1>1, <2>1, <2>2, FinishTyped DEF WritePropose, Typed, BalanceTypeOK
<1>2. ASSUME NEW op \in WriteOps, Write(s, op), UNCHANGED <<lines, payouts>>
      PROVE  Typed'
  BY <1>2, WriteTyped, FinishTyped DEF Write, Typed, BalanceTypeOK
<1>3. ASSUME WritePost(s)
      PROVE  Typed'
  <2>1. "post" \in WriteOps /\ Write(s, "post")
    BY <1>3 DEF WritePost, WriteOps, BalanceOps
  <2>2. lines' \in [Balances -> Nat]
    BY <1>3, <2>1, WriteTyped DEF WritePost, Typed, BalanceTypeOK
  <2> QED
    BY <1>3, <2>1, <2>2, WriteTyped, FinishTyped DEF WritePost, Write, Typed, BalanceTypeOK
<1>4. ASSUME WritePayout(s)
      PROVE  Typed'
  <2>1. "pay_refund_due" \in WriteOps /\ Write(s, "pay_refund_due")
    BY <1>4 DEF WritePayout, WriteOps, BalanceOps
  <2>2. call[s].balance \in Balances /\ [payer |-> call[s].actor, live |-> TRUE] \in Payout
    BY <2>1, WriteTyped DEF Payout, Request
  <2>3. payouts' \in [Balances -> Seq(Payout)]
    BY <1>4, <2>2 DEF WritePayout, Typed, BalanceTypeOK
  <2> QED
    BY <1>4, <2>1, <2>3, WriteTyped, FinishTyped DEF WritePayout, Write, Typed, BalanceTypeOK
<1>5. ASSUME WriteReversal(s)
      PROVE  Typed'
  <2>1. "reverse_refund_payout" \in WriteOps /\ Write(s, "reverse_refund_payout")
    BY <1>5 DEF WriteReversal, WriteOps, BalanceOps
  <2> DEFINE b == call[s].balance
             i == call[s].payout
  <2>2. b \in Balances /\ payouts[b] \in Seq(Payout)
    BY <2>1, WriteTyped DEF Typed, BalanceTypeOK
  <2>3. [payouts[b] EXCEPT ![i].live = FALSE] \in Seq(Payout)
    <3> DEFINE p == payouts[b]
               n == Len(p)
    <3>1. n \in Nat /\ p \in [1 .. n -> Payout]
      BY <2>2
    <3>2. \A x \in Payout : [x EXCEPT !.live = FALSE] \in Payout
      BY DEF Payout
    <3> HIDE DEF p, n
    <3>3. [p EXCEPT ![i].live = FALSE] \in [1 .. n -> Payout]
      BY <3>1, <3>2
    <3>4. [p EXCEPT ![i].live = FALSE] \in Seq(Payout)
      BY <3>1, <3>3
    <3> QED
      BY <3>4 DEF p
  <2>4. payouts' \in [Balances -> Seq(Payout)]
    BY <1>5, <2>2, <2>3 DEF WriteReversal, Typed, BalanceTypeOK
  <2> QED
    BY <1>5, <2>1, <2>4, WriteTyped, FinishTyped DEF WriteReversal, Write, Typed, BalanceTypeOK
<1>6. ASSUME DropCall(s)
      PROVE  Typed'
  BY <1>6 DEF DropCall, Typed, BalanceTypeOK, RequestsAim, Busy
<1> QED
  BY <1>1, <1>2, <1>3, <1>4, <1>5, <1>6
  DEF Writes, WriteOps, BalanceOps, WriteReview, WriteApprove, WriteReject, WriteCarryForward,
      WriteMarkRefundDue

(***************************************************************************)
(* Every step keeps the types.                                             *)
(***************************************************************************)
LEMMA StepTyped ==
    ASSUME Typed, [BalanceNext]_balanceVars
    PROVE  Typed'
<1>1. CASE ClosePeriod
  BY <1>1 DEF ClosePeriod, Typed, BalanceTypeOK, RequestsAim, Busy
<1>2. CASE UNCHANGED balanceVars
  BY <1>2 DEF balanceVars, Typed, BalanceTypeOK, RequestsAim, Busy
<1> QED
  BY <1>1, <1>2, ReadsTyped, WritesTyped DEF BalanceNext

(***************************************************************************)
(* The empty tables are well typed.                                        *)
(***************************************************************************)
LEMMA InitTyped == BalanceInit => Typed
<1>1. Absent \in Row
  BY DEF Absent, Row, Directions, OrNone
<1>2. <<>> \in Seq(Payout)
  OBVIOUS
<1>3. SUFFICES ASSUME BalanceInit PROVE Typed
  OBVIOUS
<1>4. row \in [Balances -> Row] /\ lines \in [Balances -> Nat]
  BY <1>1, <1>3 DEF BalanceInit
<1>5. payouts \in [Balances -> Seq(Payout)]
  BY <1>2, <1>3 DEF BalanceInit
<1>6. periodClosed \in BOOLEAN /\ call \in [Callers -> Request \cup {NoCall}] /\ crossed \subseteq Balances
  BY <1>3 DEF BalanceInit
<1>7. RequestsAim
  BY <1>3 DEF BalanceInit, RequestsAim, Busy
<1> QED
  BY <1>4, <1>5, <1>6, <1>7 DEF Typed, BalanceTypeOK

(***************************************************************************)
(* Every variable keeps its type, for every value of the constants.        *)
(***************************************************************************)
THEOREM BalanceTypeCorrect == BalanceSpec => []BalanceTypeOK
<1>1. BalanceSpec => []Typed
  BY InitTyped, StepTyped, PTL DEF BalanceSpec
<1> QED
  BY <1>1, PTL DEF Typed

-----------------------------------------------------------------------------
(* What the CHECK constraints keep, whatever instance a request wrote from. *)

Quiet == UNCHANGED <<row, lines, payouts, crossed>>

(***************************************************************************)
(* Loading an instance touches no table.                                   *)
(***************************************************************************)
LEMMA ReadsQuiet ==
    ASSUME NEW s \in Callers, Reads(s)
    PROVE  Quiet
  BY DEF Reads, ReadPropose, ReadReview, ReadApprove, ReadReject, ReadPost, ReadCarryForward,
         ReadMarkRefundDue, ReadPayRefund, ReadReverse, BeginCall, Quiet

(***************************************************************************)
(* The columns a commit leaves alone.                                      *)
(***************************************************************************)
LEMMA NewRowKeeps ==
    ASSUME Typed, NEW s \in Callers, NEW op \in WriteOps, Write(s, op)
    PROVE  /\ NewRow(s).source = row[call[s].balance].source
           /\ NewRow(s).direction = row[call[s].balance].direction
           /\ NewRow(s).status # "ABSENT"
           /\ op # "post" => NewRow(s).line = row[call[s].balance].line
           /\ op = "post" => NewRow(s).line = lines[call[s].balance] + 1
<1>1. call[s].op = op /\ row[call[s].balance] \in Row
  BY WriteTyped DEF Write
<1>2. CASE op = "review"
  BY <1>1, <1>2 DEF NewRow, Review, Row
<1>3. CASE op = "approve"
  BY <1>1, <1>3 DEF NewRow, Approve, Row
<1>4. CASE op = "reject"
  BY <1>1, <1>4 DEF NewRow, Reject, Row
<1>5. CASE op = "post"
  BY <1>1, <1>5 DEF NewRow, PostTo, Row
<1>6. CASE op = "carry_forward"
  BY <1>1, <1>6 DEF NewRow, CarriedForward, Row
<1>7. CASE op = "mark_refund_due"
  BY <1>1, <1>7 DEF NewRow, MarkRefundDue, Row
<1>8. CASE op = "pay_refund_due"
  BY <1>1, <1>8 DEF NewRow, Pay, Row
<1>9. CASE op = "reverse_refund_payout"
  BY <1>1, <1>9 DEF NewRow, Reopen, Row
<1> QED
  BY <1>2, <1>3, <1>4, <1>5, <1>6, <1>7, <1>8, <1>9 DEF WriteOps, BalanceOps

(***************************************************************************)
(* A row that is not there is blank, so that its source collides with none.*)
(***************************************************************************)
AbsentAreBlank == \A b \in Balances : row[b].status = "ABSENT" => row[b].source = None

Constrained == Typed /\ RowsAdmitted /\ BilledIsPosted /\ AbsentAreBlank /\ OneBalancePerSource

(***************************************************************************)
(* A proposal inserts a row the constraints admit, from a source no other  *)
(* row has.                                                                *)
(***************************************************************************)
LEMMA ProposeConstrained ==
    ASSUME Constrained, NEW s \in Callers, NEW b \in Balances, WritePropose(s, b)
    PROVE  RowsAdmitted' /\ BilledIsPosted' /\ AbsentAreBlank' /\ OneBalancePerSource'
<1> DEFINE new == [Absent EXCEPT !.status = "DRAFT", !.direction = call[s].direction,
                                 !.source = call[s].source, !.createdBy = call[s].actor]
<1>1. row \in [Balances -> Row] /\ row' = [row EXCEPT ![b] = new] /\ lines' = lines
  BY DEF WritePropose, Constrained, Typed, BalanceTypeOK
<1>2. /\ new.status = "DRAFT" /\ new.reviewedBy = None /\ new.approvedBy = None
      /\ new.line = 0 /\ new.source = call[s].source
  BY DEF Absent
<1>3. Admits(new)
  BY <1>2 DEF Admits, HandsDiffer, StampsPresent, LineMatchesStatus, CreditOutcomes
<1>4. RowsAdmitted'
  BY <1>1, <1>3 DEF RowsAdmitted, Constrained
<1>5. BilledIsPosted'
  <2>1. ~(lines[b] > 0)
    BY DEF Constrained, BilledIsPosted, WritePropose
  <2> QED
    BY <1>1, <1>2, <2>1 DEF Constrained, Typed, BalanceTypeOK, BilledIsPosted
<1>6. AbsentAreBlank'
  BY <1>1, <1>2 DEF Constrained, AbsentAreBlank
<1>7. OneBalancePerSource'
  <2>1. SourceFree(new.source)
    BY <1>2 DEF WritePropose, Accepted
  <2>2. \A c \in Balances \ {b} : new.source # None => row[c].source # new.source
    BY <2>1 DEF SourceFree, Constrained, AbsentAreBlank
  <2> QED
    BY <1>1, <2>2 DEF Constrained, OneBalancePerSource
<1> QED
  BY <1>4, <1>5, <1>6, <1>7

(***************************************************************************)
(* Any other commit leaves a row the constraints admit; a charge line is   *)
(* written exactly by post.                                                *)
(***************************************************************************)
LEMMA WriteConstrained ==
    ASSUME Constrained, NEW s \in Callers, NEW op \in WriteOps, Write(s, op),
           lines' = IF op = "post" THEN [lines EXCEPT ![call[s].balance] = @ + 1] ELSE lines
    PROVE  RowsAdmitted' /\ BilledIsPosted' /\ AbsentAreBlank' /\ OneBalancePerSource'
<1> DEFINE b == call[s].balance
<1>1. b \in Balances /\ row \in [Balances -> Row] /\ NewRow(s) \in Row /\ lines[b] \in Nat
  BY WriteTyped DEF Constrained, Typed, BalanceTypeOK
<1>2. row' = [row EXCEPT ![b] = NewRow(s)] /\ Admits(NewRow(s))
  BY DEF Write, Accepted, WriteOps
<1>3. RowsAdmitted'
  BY <1>1, <1>2 DEF RowsAdmitted, Constrained
<1>4. BilledIsPosted'
  <2>1. lines' \in [Balances -> Nat] /\ \A c \in Balances \ {b} : lines'[c] = lines[c]
    BY <1>1 DEF Constrained, Typed, BalanceTypeOK
  <2>2. /\ lines'[b] > 0 <=> NewRow(s).status = "POSTED"
        /\ NewRow(s).line \in 0 .. lines'[b]
        /\ lines'[b] > 0 => NewRow(s).line > 0 /\ NewRow(s).direction = "RECEIVABLE"
    <3>1. CASE op = "post"
      BY <1>1, <1>2, <3>1, NewRowKeeps
      DEF Constrained, Typed, BalanceTypeOK, Admits, LineMatchesStatus, Row, Directions
    <3>2. CASE op # "post"
      <4>1. NewRow(s).line = row[b].line /\ lines'[b] = lines[b]
        BY <3>2, NewRowKeeps DEF Constrained
      <4>2. /\ row[b].line \in 0 .. lines[b]
            /\ lines[b] > 0 => row[b].line > 0 /\ row[b].direction = "RECEIVABLE"
        BY <1>1 DEF Constrained, BilledIsPosted
      <4> QED
        BY <1>1, <1>2, <4>1, <4>2, NewRowKeeps DEF Constrained, Admits, LineMatchesStatus
    <3> QED
      BY <3>1, <3>2
  <2> QED
    BY <1>1, <1>2, <2>1, <2>2 DEF BilledIsPosted, Constrained
<1>5. AbsentAreBlank' /\ OneBalancePerSource'
  BY <1>1, <1>2, NewRowKeeps DEF Constrained, AbsentAreBlank, OneBalancePerSource
<1> QED
  BY <1>3, <1>4, <1>5

(***************************************************************************)
(* Every step keeps what the constraints say.                              *)
(***************************************************************************)
LEMMA StepConstrained ==
    ASSUME Constrained, [BalanceNext]_balanceVars
    PROVE  Constrained'
<1>1. Typed'
  BY StepTyped DEF Constrained
<1>2. ASSUME Quiet
      PROVE  RowsAdmitted' /\ BilledIsPosted' /\ AbsentAreBlank' /\ OneBalancePerSource'
  BY <1>2 DEF Quiet, Constrained, RowsAdmitted, BilledIsPosted, AbsentAreBlank,
              OneBalancePerSource
<1>3. CASE ClosePeriod \/ UNCHANGED balanceVars
  BY <1>1, <1>2, <1>3 DEF ClosePeriod, balanceVars, Quiet, Constrained
<1>4. ASSUME NEW s \in Callers, Reads(s) \/ DropCall(s)
      PROVE  Constrained'
  BY <1>1, <1>2, <1>4, ReadsQuiet DEF DropCall, Quiet, Constrained
<1>5. ASSUME NEW s \in Callers, NEW b \in Balances, WritePropose(s, b)
      PROVE  Constrained'
  BY <1>1, <1>5, ProposeConstrained DEF Constrained
<1>6. ASSUME NEW s \in Callers, NEW op \in WriteOps, Write(s, op),
             lines' = IF op = "post" THEN [lines EXCEPT ![call[s].balance] = @ + 1] ELSE lines
      PROVE  Constrained'
  BY <1>1, <1>6, WriteConstrained DEF Constrained
<1>7. ASSUME NEW s \in Callers,
             \/ WriteReview(s)
             \/ WriteApprove(s)
             \/ WriteReject(s)
             \/ WriteCarryForward(s)
             \/ WriteMarkRefundDue(s)
      PROVE  Constrained'
  BY <1>6, <1>7 DEF WriteReview, WriteApprove, WriteReject, WriteCarryForward,
                    WriteMarkRefundDue, WriteOps, BalanceOps
<1>8. ASSUME NEW s \in Callers, WritePost(s) \/ WritePayout(s) \/ WriteReversal(s)
      PROVE  Constrained'
  BY <1>6, <1>8 DEF WritePost, WritePayout, WriteReversal, WriteOps, BalanceOps
<1> QED
  BY <1>3, <1>4, <1>5, <1>7, <1>8 DEF BalanceNext, Writes

(***************************************************************************)
(* The empty tables satisfy the constraints.                               *)
(***************************************************************************)
LEMMA InitConstrained == BalanceInit => Constrained
<1>1. SUFFICES ASSUME BalanceInit PROVE Constrained
  OBVIOUS
<1>2. Admits(Absent) /\ Absent.source = None /\ Absent.status = "ABSENT" /\ Absent.line = 0
  BY DEF Admits, HandsDiffer, StampsPresent, LineMatchesStatus, CreditOutcomes, Absent
<1>3. RowsAdmitted /\ BilledIsPosted /\ AbsentAreBlank /\ OneBalancePerSource
  BY <1>1, <1>2 DEF BalanceInit, RowsAdmitted, BilledIsPosted, AbsentAreBlank, OneBalancePerSource
<1> QED
  BY <1>1, <1>3, InitTyped DEF Constrained

(***************************************************************************)
(* Constrained holds in every reachable state: the temporal form of the    *)
(* two lemmas above, from which the theorems below read off their parts.   *)
(***************************************************************************)
LEMMA AlwaysConstrained == BalanceSpec => []Constrained
  BY InitConstrained, StepConstrained, PTL DEF BalanceSpec

(***************************************************************************)
(* D-24 for any number of officers, managers and overlapping requests: the *)
(* three roles of one balance are three people.                            *)
(***************************************************************************)
THEOREM DutiesSeparated == BalanceSpec => []SeparationOfDuties
<1>1. Constrained => SeparationOfDuties
  BY DEF Constrained, RowsAdmitted, Admits, HandsDiffer, StampsPresent, SeparationOfDuties
<1> QED
  BY <1>1, AlwaysConstrained, PTL

(***************************************************************************)
(* A debt with a charge line says POSTED and names one of its lines, in    *)
(* every interleaving of any number of requests.                           *)
(***************************************************************************)
THEOREM DebtBilledOnlyWhenPosted == BalanceSpec => []BilledIsPosted
  BY AlwaysConstrained, PTL DEF Constrained

(***************************************************************************)
(* No two balances are derived from one archived enrolment, although the   *)
(* duplicate is looked for before the insert.                              *)
(***************************************************************************)
THEOREM SourcesDistinct == BalanceSpec => []OneBalancePerSource
  BY AlwaysConstrained, PTL DEF Constrained

-----------------------------------------------------------------------------
(* What is kept until a balance is written from an out-of-date instance. *)

(***************************************************************************)
(* A request whose instance is still current would pass its guard again.   *)
(***************************************************************************)
GuardHolds(q) ==
    LET r == row[q.balance]
    IN  /\ q.op = "review" => r.status = "DRAFT"
        /\ q.op = "approve" => r.status = "REVIEWED"
        /\ q.op = "reject" => CanReject(r)
        /\ q.op = "post" => CanPost(r)
        /\ q.op \in {"carry_forward", "mark_refund_due"} => CanResolveCredit(r)
        /\ q.op = "pay_refund_due" => CanPayRefund(r, q.actor)
        /\ q.op = "reverse_refund_payout" => q.payout \in Live(q.balance)

FreshGuardsHold ==
    \A s \in Callers :
        Busy(s) /\ call[s].op # "propose" /\ call[s].fresh => GuardHolds(call[s])

OneLivePayout == \A b \in Balances : \A i, j \in Live(b) : i = j

CashIffRefunded == \A b \in Balances \ crossed : Live(b) # {} <=> row[b].status = "REFUNDED"

Unraced ==
    PostedOnceUnlessRaced /\ OneLivePayout /\ CashIffRefunded /\ PayerIsNotDeclarer

History == Constrained /\ FreshGuardsHold /\ Unraced

-----------------------------------------------------------------------------
(* The live payouts of a balance. *)

(***************************************************************************)
(* A payout adds one live row and leaves the others alone.                 *)
(***************************************************************************)
LEMMA LiveAfterPayout ==
    ASSUME Typed, NEW s \in Callers, WritePayout(s), NEW b \in Balances
    PROVE  /\ b # call[s].balance => payouts'[b] = payouts[b]
           /\ b = call[s].balance =>
                /\ Live(b)' = Live(b) \cup {Len(payouts[b]) + 1}
                /\ payouts'[b][Len(payouts[b]) + 1].payer = call[s].actor
                /\ \A i \in Live(b) : payouts'[b][i] = payouts[b][i]
<1> DEFINE new == [payer |-> call[s].actor, live |-> TRUE]
<1>1. new \in Payout
  <2>1. Write(s, "pay_refund_due") /\ "pay_refund_due" \in WriteOps
    BY DEF WritePayout, WriteOps, BalanceOps
  <2> QED
    BY <2>1, WriteTyped DEF Payout, Request
<1>2. payouts' = [payouts EXCEPT ![call[s].balance] = Append(payouts[call[s].balance], new)]
  BY DEF WritePayout
<1>3. CASE b # call[s].balance
  BY <1>2, <1>3 DEF Typed, BalanceTypeOK
<1>4. CASE b = call[s].balance
  <2>1. payouts[b] \in Seq(Payout) /\ payouts'[b] = Append(payouts[b], new)
    BY <1>2, <1>4 DEF Typed, BalanceTypeOK
  <2> DEFINE n == Len(payouts[b]) + 1
  <2>2. /\ DOMAIN payouts'[b] = DOMAIN payouts[b] \cup {n}
        /\ \A i \in DOMAIN payouts[b] : payouts'[b][i] = payouts[b][i]
        /\ payouts'[b][n] = new
        /\ n \notin DOMAIN payouts[b]
    BY <1>1, <2>1
  <2> QED
    BY <1>4, <2>2 DEF Live
<1> QED
  BY <1>3, <1>4

(***************************************************************************)
(* A reversal takes the payout it names out of the live rows.              *)
(***************************************************************************)
LEMMA LiveAfterReversal ==
    ASSUME Typed, NEW s \in Callers, WriteReversal(s), NEW b \in Balances
    PROVE  /\ b # call[s].balance => payouts'[b] = payouts[b]
           /\ b = call[s].balance =>
                /\ Live(b)' = Live(b) \ {call[s].payout}
                /\ \A i \in Live(b)' : payouts'[b][i] = payouts[b][i]
<1> DEFINE p == payouts[b]
           i == call[s].payout
<1>1. payouts' = [payouts EXCEPT ![call[s].balance][i].live = FALSE]
  BY DEF WriteReversal
<1>2. CASE b # call[s].balance
  BY <1>1, <1>2 DEF Typed, BalanceTypeOK
<1>3. CASE b = call[s].balance
  <2>1. p \in Seq(Payout) /\ payouts'[b] = [p EXCEPT ![i].live = FALSE]
    BY <1>1, <1>3 DEF Typed, BalanceTypeOK
  <2>2. \A x \in Payout : ~[x EXCEPT !.live = FALSE].live
    BY DEF Payout
  <2>3. /\ DOMAIN payouts'[b] = DOMAIN p
        /\ \A j \in DOMAIN p \ {i} : payouts'[b][j] = p[j]
        /\ i \in DOMAIN p => ~payouts'[b][i].live
    BY <2>1, <2>2
  <2> QED
    BY <1>3, <2>3 DEF Live
<1> QED
  BY <1>2, <1>3

-----------------------------------------------------------------------------
(* Requests: what is loaded passes its guard, and commits elsewhere leave  *)
(* it passing.                                                             *)

(***************************************************************************)
(* A request just loaded holds its guard.                                  *)
(***************************************************************************)
LEMMA ReadGuardHolds ==
    ASSUME Typed, NEW s \in Callers, Reads(s),
           Busy(s)', call'[s].op # "propose"
    PROVE  GuardHolds(call[s])'
<1>1. call \in [Callers -> Request \cup {NoCall}]
  BY DEF Typed, BalanceTypeOK
<1>2. row' = row /\ payouts' = payouts
  BY ReadsQuiet DEF Quiet
<1> USE DEF GuardHolds, BeginCall, Ask
<1>3. ASSUME NEW u \in Officers, NEW d \in Directions, NEW src \in OrNone(SourceRows),
             ReadPropose(s, u, d, src)
      PROVE  FALSE
  BY <1>1, <1>3 DEF ReadPropose
<1>4. ASSUME NEW b \in Balances, NEW u \in Users, NEW e \in OrNone(Enrollments),
             ReadReview(s, b, u, e)
      PROVE  GuardHolds(call[s])'
  BY <1>1, <1>2, <1>4 DEF ReadReview, CanReview
<1>5. ASSUME NEW b \in Balances, NEW u \in Users,
             ReadApprove(s, b, u) \/ ReadReject(s, b, u) \/ ReadPost(s, b, u)
      PROVE  GuardHolds(call[s])'
  BY <1>1, <1>2, <1>5 DEF ReadApprove, CanApprove, ReadReject, CanReject, ReadPost, CanPost
<1>6. ASSUME NEW b \in Balances, NEW u \in Users, NEW e \in Enrollments,
             ReadCarryForward(s, b, u, e)
      PROVE  GuardHolds(call[s])'
  BY <1>1, <1>2, <1>6 DEF ReadCarryForward, CanCarryForward, CanResolveCredit
<1>7. ASSUME NEW b \in Balances, NEW u \in Users,
             ReadMarkRefundDue(s, b, u) \/ ReadPayRefund(s, b, u)
      PROVE  GuardHolds(call[s])'
  BY <1>1, <1>2, <1>7 DEF ReadMarkRefundDue, CanResolveCredit, ReadPayRefund, CanPayRefund
<1>8. ASSUME NEW b \in Balances, NEW u \in Users, ReadReverse(s, b, u)
      PROVE  GuardHolds(call[s])'
  BY <1>1, <1>2, <1>8 DEF ReadReverse, Live
<1> QED
  BY <1>3, <1>4, <1>5, <1>6, <1>7, <1>8 DEF Reads

(***************************************************************************)
(* A commit on balance b leaves current only the requests about other      *)
(* balances.                                                               *)
(***************************************************************************)
LEMMA FinishOutdates ==
    ASSUME Typed, FreshGuardsHold, NEW s \in Callers, NEW b \in Balances, EndCall(s, b),
           \A c \in Balances \ {b} : row'[c] = row[c] /\ payouts'[c] = payouts[c]
    PROVE  FreshGuardsHold'
<1> SUFFICES ASSUME NEW t \in Callers,
                    Busy(t)', call'[t].op # "propose", call'[t].fresh
             PROVE  GuardHolds(call[t])'
  BY DEF FreshGuardsHold
<1>1. call \in [Callers -> Request \cup {NoCall}]
  BY DEF Typed, BalanceTypeOK
<1>2. t # s
  BY DEF EndCall, Busy
<1>3. Busy(t) /\ call[t] \in Request
  BY <1>1, <1>2 DEF EndCall, Busy
<1>4. call'[t] = call[t] /\ call[t].balance # b
  BY <1>1, <1>2, <1>3 DEF EndCall, Busy, Request
<1>5. call[t].balance \in Balances \ {b}
  BY <1>3, <1>4 DEF Typed, RequestsAim
<1>6. GuardHolds(call[t])
  BY <1>3, <1>4 DEF FreshGuardsHold
<1> QED
  BY <1>4, <1>5, <1>6 DEF GuardHolds, Live

(***************************************************************************)
(* The balance a session commits to, unless disturbed, was written from a  *)
(* current instance, and so its guard holds.                               *)
(***************************************************************************)
LEMMA UnracedWrite ==
    ASSUME History, NEW s \in Callers, NEW op \in WriteOps, Write(s, op),
           call[s].balance \notin crossed'
    PROVE  GuardHolds(call[s]) /\ call[s].balance \notin crossed
<1>1. call[s].op = op /\ Busy(s) /\ call[s].balance \in Balances
  BY WriteTyped DEF Write, History, Constrained
<1>2. call[s].fresh /\ call[s].balance \notin crossed
  BY <1>1 DEF Write, EndCall
<1> QED
  BY <1>1, <1>2 DEF History, FreshGuardsHold, WriteOps

-----------------------------------------------------------------------------
(* Every commit keeps the history. *)

(***************************************************************************)
(* Commits that change neither lines nor payouts.                          *)
(***************************************************************************)
LEMMA PlainWriteUnraced ==
    ASSUME History, NEW s \in Callers,
           NEW op \in {"review", "approve", "reject", "carry_forward", "mark_refund_due"},
           Write(s, op), UNCHANGED <<lines, payouts>>
    PROVE  Unraced'
<1> DEFINE b == call[s].balance
<1>1. op \in WriteOps /\ Typed
  BY DEF WriteOps, BalanceOps, History, Constrained
<1>2. b \in Balances /\ row[b] \in Row /\ call[s].op = op
  BY <1>1, WriteTyped DEF Write
<1>3. crossed \subseteq crossed' /\ row' = [row EXCEPT ![b] = NewRow(s)]
  BY <1>1 DEF Write, EndCall
<1>4. row \in [Balances -> Row] /\ \A c \in Balances : Live(c)' = Live(c)
  BY <1>1 DEF Live, Typed, BalanceTypeOK
<1>5. ASSUME b \notin crossed'
      PROVE  /\ Live(b) = {}
             /\ NewRow(s).status # "REFUNDED"
  <2>1. GuardHolds(call[s]) /\ b \notin crossed
    BY <1>1, <1>5, UnracedWrite
  <2>2. row[b].status \in {"DRAFT", "REVIEWED", "APPROVED"}
    BY <1>2, <2>1 DEF GuardHolds, CanReject, CanResolveCredit
  <2>3. Live(b) = {}
    BY <1>2, <2>1, <2>2 DEF History, Unraced, CashIffRefunded
  <2>4. NewRow(s).status # "REFUNDED"
    BY <1>2 DEF NewRow, Review, Approve, Reject, CarriedForward, MarkRefundDue, Row
  <2> QED
    BY <2>3, <2>4
<1>6. PostedOnceUnlessRaced' /\ OneLivePayout'
  BY <1>3, <1>4 DEF History, Unraced, PostedOnceUnlessRaced, OneLivePayout
<1>7. CashIffRefunded' /\ PayerIsNotDeclarer'
  BY <1>2, <1>3, <1>4, <1>5 DEF History, Unraced, CashIffRefunded, PayerIsNotDeclarer
<1> QED
  BY <1>6, <1>7 DEF Unraced

(***************************************************************************)
(* Posting writes the only line of a balance nobody disturbed.             *)
(***************************************************************************)
LEMMA PostUnraced ==
    ASSUME History, NEW s \in Callers, WritePost(s)
    PROVE  Unraced'
<1> DEFINE b == call[s].balance
<1>1. "post" \in WriteOps /\ Write(s, "post") /\ Typed
  BY DEF WritePost, WriteOps, BalanceOps, History, Constrained
<1>2. b \in Balances /\ row[b] \in Row /\ lines[b] \in Nat /\ call[s].op = "post"
  BY <1>1, WriteTyped DEF Write, Typed, BalanceTypeOK
<1>3. /\ crossed \subseteq crossed'
      /\ row' = [row EXCEPT ![b] = NewRow(s)]
      /\ lines' = [lines EXCEPT ![b] = @ + 1]
      /\ payouts' = payouts
  BY <1>1 DEF Write, EndCall, WritePost
<1>4. row \in [Balances -> Row] /\ \A c \in Balances : Live(c)' = Live(c)
  BY <1>1, <1>3 DEF Live, Typed, BalanceTypeOK
<1>5. NewRow(s).status = "POSTED" /\ NewRow(s).resolvedBy = row[b].resolvedBy
  BY <1>2 DEF NewRow, PostTo, Row
<1>6. ASSUME b \notin crossed'
      PROVE  lines[b] = 0 /\ Live(b) = {}
  <2>1. CanPost(row[b]) /\ b \notin crossed
    BY <1>1, <1>2, <1>6, UnracedWrite DEF GuardHolds
  <2>2. lines[b] = 0
    BY <1>2, <2>1 DEF CanPost, History, Constrained, BilledIsPosted
  <2>3. Live(b) = {}
    BY <1>2, <2>1 DEF CanPost, History, Unraced, CashIffRefunded
  <2> QED
    BY <2>2, <2>3
<1>7. PostedOnceUnlessRaced'
  BY <1>1, <1>2, <1>3, <1>6 DEF History, Unraced, PostedOnceUnlessRaced, Typed, BalanceTypeOK
<1>8. OneLivePayout' /\ CashIffRefunded' /\ PayerIsNotDeclarer'
  BY <1>2, <1>3, <1>4, <1>5, <1>6
  DEF History, Unraced, OneLivePayout, CashIffRefunded, PayerIsNotDeclarer
<1> QED
  BY <1>7, <1>8 DEF Unraced

(***************************************************************************)
(* Cash goes out once, and by another hand than declared it due.           *)
(***************************************************************************)
LEMMA PayoutUnraced ==
    ASSUME History, NEW s \in Callers, WritePayout(s)
    PROVE  Unraced'
<1> DEFINE b == call[s].balance
           n == Len(payouts[b]) + 1
<1>1. "pay_refund_due" \in WriteOps /\ Write(s, "pay_refund_due") /\ Typed
  BY DEF WritePayout, WriteOps, BalanceOps, History, Constrained
<1>2. b \in Balances /\ row[b] \in Row /\ call[s].op = "pay_refund_due"
  BY <1>1, WriteTyped DEF Write
<1>3. crossed \subseteq crossed' /\ row' = [row EXCEPT ![b] = NewRow(s)] /\ lines' = lines
  BY <1>1 DEF Write, EndCall, WritePayout
<1>4. row \in [Balances -> Row]
  BY <1>1 DEF Typed, BalanceTypeOK
<1>5. NewRow(s).status = "REFUNDED" /\ NewRow(s).resolvedBy = row[b].resolvedBy
  BY <1>2 DEF NewRow, Pay, Row
<1>6. Live(b) = {}
  BY <1>1, <1>2 DEF Write, Accepted, NoLivePayout
<1>7. \A c \in Balances : c = b => Live(c)' = {n} /\ payouts'[c][n].payer = call[s].actor
  BY <1>1, <1>6, LiveAfterPayout
<1>8. \A c \in Balances \ {b} : Live(c)' = Live(c) /\ payouts'[c] = payouts[c]
  BY <1>1, LiveAfterPayout DEF Live
<1>9. ASSUME b \notin crossed'
      PROVE  call[s].actor # row[b].resolvedBy
  BY <1>1, <1>2, <1>9, UnracedWrite DEF GuardHolds, CanPayRefund
<1>10. PostedOnceUnlessRaced' /\ OneLivePayout'
  BY <1>3, <1>7, <1>8 DEF History, Unraced, PostedOnceUnlessRaced, OneLivePayout
<1>11. CashIffRefunded'
  BY <1>2, <1>3, <1>4, <1>5, <1>7, <1>8 DEF History, Unraced, CashIffRefunded
<1>12. PayerIsNotDeclarer'
  BY <1>2, <1>3, <1>4, <1>5, <1>7, <1>8, <1>9 DEF History, Unraced, PayerIsNotDeclarer
<1> QED
  BY <1>10, <1>11, <1>12 DEF Unraced

(***************************************************************************)
(* A reversal brings the cash of a balance back.                           *)
(***************************************************************************)
LEMMA ReversalUnraced ==
    ASSUME History, NEW s \in Callers, WriteReversal(s)
    PROVE  Unraced'
<1> DEFINE b == call[s].balance
           i == call[s].payout
<1>1. /\ "reverse_refund_payout" \in WriteOps /\ Write(s, "reverse_refund_payout")
      /\ Typed
  BY DEF WriteReversal, WriteOps, BalanceOps, History, Constrained
<1>2. b \in Balances /\ row[b] \in Row /\ call[s].op = "reverse_refund_payout"
  BY <1>1, WriteTyped DEF Write
<1>3. crossed \subseteq crossed' /\ row' = [row EXCEPT ![b] = NewRow(s)] /\ lines' = lines
  BY <1>1 DEF Write, EndCall, WriteReversal
<1>4. row \in [Balances -> Row]
  BY <1>1 DEF Typed, BalanceTypeOK
<1>5. NewRow(s).status = "REFUND_DUE" /\ NewRow(s).resolvedBy = row[b].resolvedBy
  BY <1>2 DEF NewRow, Reopen, Row
<1>6. \A c \in Balances : c = b =>
        /\ Live(c)' = Live(c) \ {i}
        /\ \A j \in Live(c)' : payouts'[c][j] = payouts[c][j]
  BY <1>1, LiveAfterReversal
<1>7. \A c \in Balances \ {b} : Live(c)' = Live(c) /\ payouts'[c] = payouts[c]
  BY <1>1, LiveAfterReversal DEF Live
<1>8. ASSUME b \notin crossed'
      PROVE  Live(b) = {i}
  <2>1. i \in Live(b)
    BY <1>1, <1>2, <1>8, UnracedWrite DEF GuardHolds
  <2> QED
    BY <1>2, <2>1 DEF History, Unraced, OneLivePayout
<1>9. PostedOnceUnlessRaced' /\ OneLivePayout'
  BY <1>3, <1>6, <1>7 DEF History, Unraced, PostedOnceUnlessRaced, OneLivePayout
<1>10. CashIffRefunded'
  <2>1. ASSUME NEW c \in Balances \ crossed'
        PROVE  Live(c)' # {} <=> row'[c].status = "REFUNDED"
    <3>1. CASE c = b
      BY <1>2, <1>3, <1>4, <1>5, <1>6, <1>8, <2>1, <3>1
    <3>2. CASE c # b
      BY <1>2, <1>3, <1>4, <1>7, <2>1, <3>2 DEF History, Unraced, CashIffRefunded
    <3> QED
      BY <3>1, <3>2
  <2> QED
    BY <2>1 DEF CashIffRefunded
<1>11. PayerIsNotDeclarer'
  BY <1>2, <1>3, <1>4, <1>5, <1>6, <1>7 DEF History, Unraced, PayerIsNotDeclarer
<1> QED
  BY <1>9, <1>10, <1>11 DEF Unraced

(***************************************************************************)
(* A balance just proposed has no line and no payout.                      *)
(***************************************************************************)
LEMMA ProposeUnraced ==
    ASSUME History, NEW s \in Callers, NEW b \in Balances, WritePropose(s, b)
    PROVE  Unraced'
<1>1. /\ crossed \subseteq crossed' /\ UNCHANGED <<lines, payouts>>
      /\ \A c \in Balances \ {b} : row'[c] = row[c]
      /\ row'[b].status = "DRAFT" /\ row[b].status = "ABSENT"
  BY DEF WritePropose, EndCall, Absent, History, Constrained, Typed, BalanceTypeOK
<1>2. \A c \in Balances : Live(c)' = Live(c)
  BY <1>1 DEF Live
<1>3. b \notin crossed => Live(b) = {}
  BY <1>1 DEF History, Unraced, CashIffRefunded
<1> QED
  BY <1>1, <1>2, <1>3
  DEF History, Unraced, PostedOnceUnlessRaced, OneLivePayout, CashIffRefunded, PayerIsNotDeclarer

(***************************************************************************)
(* Every step keeps the history.                                           *)
(***************************************************************************)
LEMMA StepHistory ==
    ASSUME History, [BalanceNext]_balanceVars
    PROVE  History'
<1>1. Constrained' /\ Typed
  BY StepConstrained DEF History, Constrained
<1>2. ASSUME Quiet
      PROVE  Unraced'
  BY <1>2 DEF Quiet, History, Unraced, PostedOnceUnlessRaced, OneLivePayout, CashIffRefunded,
              PayerIsNotDeclarer, Live
<1>3. CASE ClosePeriod \/ UNCHANGED balanceVars
  <2>1. Quiet /\ call' = call
    BY <1>3 DEF ClosePeriod, balanceVars, Quiet
  <2>2. FreshGuardsHold'
    BY <2>1 DEF Quiet, History, FreshGuardsHold, Busy, GuardHolds, Live
  <2> QED
    BY <1>1, <1>2, <2>1, <2>2 DEF History
<1>4. ASSUME NEW s \in Callers, Reads(s) \/ DropCall(s)
      PROVE  History'
  <2>1. Quiet /\ \A t \in Callers \ {s} : call'[t] = call[t]
    BY <1>1, <1>4, ReadsQuiet
    DEF DropCall, Quiet, Reads, ReadPropose, ReadReview, ReadApprove, ReadReject, ReadPost,
        ReadCarryForward, ReadMarkRefundDue, ReadPayRefund, ReadReverse, BeginCall, Typed, BalanceTypeOK
  <2>2. Busy(s)' /\ call'[s].op # "propose" => GuardHolds(call[s])'
    BY <1>1, <1>4, ReadGuardHolds DEF DropCall, Busy, Typed, BalanceTypeOK
  <2>3. FreshGuardsHold'
    BY <2>1, <2>2 DEF Quiet, History, FreshGuardsHold, Busy, GuardHolds, Live
  <2> QED
    BY <1>1, <1>2, <2>1, <2>3 DEF History
<1>5. ASSUME NEW s \in Callers, NEW b \in Balances, WritePropose(s, b)
      PROVE  History'
  <2>1. FreshGuardsHold'
    BY <1>1, <1>5, FinishOutdates DEF WritePropose, History, Typed, BalanceTypeOK
  <2> QED
    BY <1>1, <1>5, <2>1, ProposeUnraced DEF History
<1>6. ASSUME NEW s \in Callers, NEW op \in WriteOps, Write(s, op),
             \A c \in Balances : c # call[s].balance => payouts'[c] = payouts[c]
      PROVE  FreshGuardsHold'
  <2>1. /\ call[s].balance \in Balances
        /\ \A c \in Balances : c # call[s].balance => row'[c] = row[c]
    BY <1>1, <1>6, WriteTyped DEF Write, Typed, BalanceTypeOK
  <2> QED
    BY <1>1, <1>6, <2>1, FinishOutdates DEF Write, History
<1>7. ASSUME NEW s \in Callers,
             NEW op \in {"review", "approve", "reject", "carry_forward", "mark_refund_due"},
             Write(s, op), UNCHANGED <<lines, payouts>>
      PROVE  History'
  BY <1>1, <1>6, <1>7, PlainWriteUnraced DEF History, WriteOps, BalanceOps
<1>8. ASSUME NEW s \in Callers, WritePost(s)
      PROVE  History'
  BY <1>1, <1>6, <1>8, PostUnraced DEF History, WritePost, WriteOps, BalanceOps
<1>9. ASSUME NEW s \in Callers, WritePayout(s)
      PROVE  History'
  BY <1>1, <1>6, <1>9, PayoutUnraced, LiveAfterPayout DEF History, WritePayout, WriteOps, BalanceOps
<1>10. ASSUME NEW s \in Callers, WriteReversal(s)
       PROVE  History'
  BY <1>1, <1>6, <1>10, ReversalUnraced, LiveAfterReversal
  DEF History, WriteReversal, WriteOps, BalanceOps
<1> QED
  BY <1>3, <1>4, <1>5, <1>7, <1>8, <1>9, <1>10
  DEF BalanceNext, Writes, WriteReview, WriteApprove, WriteReject, WriteCarryForward,
      WriteMarkRefundDue

(***************************************************************************)
(* Empty tables and idle sessions have no history.                         *)
(***************************************************************************)
LEMMA InitHistory == BalanceInit => History
<1>1. SUFFICES ASSUME BalanceInit PROVE History
  OBVIOUS
<1>2. \A b \in Balances : Live(b) = {} /\ row[b].status = "ABSENT" /\ lines[b] = 0
  BY <1>1 DEF BalanceInit, Live, Absent
<1>3. FreshGuardsHold
  BY <1>1 DEF BalanceInit, FreshGuardsHold, Busy
<1>4. Unraced
  BY <1>2 DEF Unraced, PostedOnceUnlessRaced, OneLivePayout, CashIffRefunded, PayerIsNotDeclarer
<1> QED
  BY <1>1, <1>3, <1>4, InitConstrained DEF History

(***************************************************************************)
(* History holds in every reachable state, together with the types and the *)
(* constraints it was shown inductive under.                               *)
(***************************************************************************)
LEMMA AlwaysHistory == BalanceSpec => []History
  BY InitHistory, StepHistory, PTL DEF BalanceSpec

(***************************************************************************)
(* An old debt has two charge lines only if one was written from an        *)
(* out-of-date instance: the guards of post() are right, their place       *)
(* outside the transaction is not.                                         *)
(***************************************************************************)
THEOREM PostedOnceWithoutRaces == BalanceSpec => []PostedOnceUnlessRaced
  BY AlwaysHistory, PTL DEF History, Unraced

(***************************************************************************)
(* At most one payout of a balance is live, and until an out-of-date       *)
(* write, exactly while the balance says REFUNDED.                         *)
(***************************************************************************)
THEOREM CashFollowsStatus == BalanceSpec => []CashMatchesStatus
<1>1. History => CashMatchesStatus
  <2>1. SUFFICES ASSUME History, NEW b \in Balances
                 PROVE  /\ Cardinality(Live(b)) <= 1
                        /\ b \notin crossed => (Live(b) # {} <=> row[b].status = "REFUNDED")
    BY DEF CashMatchesStatus
  <2>2. CASE Live(b) = {}
    BY <2>1, <2>2, FS_EmptySet DEF History, Unraced, CashIffRefunded
  <2>3. CASE Live(b) # {}
    <3>1. PICK i : Live(b) = {i}
      BY <2>1, <2>3 DEF History, Unraced, OneLivePayout
    <3>2. Cardinality({i}) = 1
      BY FS_Singleton
    <3> QED
      BY <2>1, <3>1, <3>2 DEF History, Unraced, CashIffRefunded
  <2> QED
    BY <2>2, <2>3
<1> QED
  BY <1>1, AlwaysHistory, PTL

(***************************************************************************)
(* Cash is handed out by somebody who did not declare it due, until an     *)
(* out-of-date write.                                                      *)
(***************************************************************************)
THEOREM PayerDiffersFromDeclarer == BalanceSpec => []PayerIsNotDeclarer
  BY AlwaysHistory, PTL DEF History, Unraced

-----------------------------------------------------------------------------
(* The workflow implements its abstract specification. *)

Effect(status) ==
    [ledger  |-> IF status = "POSTED" THEN 1 ELSE 0,
     account |-> IF status = "APPLIED" THEN 1 ELSE 0,
     cash    |-> IF status = "REFUNDED" THEN 1 ELSE 0]

(***************************************************************************)
(* The status of a balance nobody disturbed says how it took effect.       *)
(***************************************************************************)
LEMMA StatusTellsEffect ==
    History => \A b \in Balances \ crossed : Discharges[b] = Effect(row[b].status)
<1> SUFFICES ASSUME History, NEW b \in Balances \ crossed
             PROVE  Discharges[b] = Effect(row[b].status)
  OBVIOUS
<1>1. Cardinality(Live(b)) = IF row[b].status = "REFUNDED" THEN 1 ELSE 0
  <2>1. CASE Live(b) = {}
    BY <2>1, FS_EmptySet DEF History, Unraced, CashIffRefunded
  <2>2. CASE Live(b) # {}
    <3>1. PICK i : Live(b) = {i}
      BY <2>2 DEF History, Unraced, OneLivePayout
    <3>2. Cardinality({i}) = 1
      BY FS_Singleton
    <3> QED
      BY <2>2, <3>1, <3>2 DEF History, Unraced, CashIffRefunded
  <2> QED
    BY <2>1, <2>2
<1>2. lines[b] = IF row[b].status = "POSTED" THEN 1 ELSE 0
  BY DEF History, Constrained, BilledIsPosted, Unraced, PostedOnceUnlessRaced, Typed, BalanceTypeOK
<1> QED
  BY <1>1, <1>2 DEF Discharges, Effect

(***************************************************************************)
(* The same of the state a step leads to, which keeps the types, the       *)
(* constraints and the history.                                            *)
(***************************************************************************)
LEMMA StatusTellsEffectNext ==
    History' => (\A b \in Balances \ crossed : Discharges[b] = Effect(row[b].status))'
  BY StatusTellsEffect, PTL

(***************************************************************************)
(* Nothing happens, an untouched balance is settled through one channel,   *)
(* or cash is taken back.                                                  *)
(***************************************************************************)
Turns(old, new) ==
    \/ new = old
    \/ /\ old = Obligation!Untouched
       /\ \E c \in Obligation!Channels : new = [Obligation!Untouched EXCEPT ![c] = 1]
    \/ /\ old = [Obligation!Untouched EXCEPT !.cash = 1]
       /\ new = Obligation!Untouched

(***************************************************************************)
(* The moves of the status that a current instance allows, and what each   *)
(* is in the abstract specification.                                       *)
(***************************************************************************)
LEMMA StatusMoves ==
    ASSUME History, NEW s \in Callers, NEW op \in WriteOps, Write(s, op),
           call[s].balance \notin crossed'
    PROVE  Turns(Effect(row[call[s].balance].status), Effect(NewRow(s).status))
<1>1. GuardHolds(call[s]) /\ call[s].balance \notin crossed
  BY UnracedWrite
<1>2. /\ call[s].op = op /\ call[s].balance \in Balances
      /\ row[call[s].balance] \in Row
  BY WriteTyped DEF Write, History, Constrained
<1> DEFINE r == row[call[s].balance]
<1>3. /\ Effect("POSTED") = [Obligation!Untouched EXCEPT !["ledger"] = 1]
      /\ Effect("APPLIED") = [Obligation!Untouched EXCEPT !["account"] = 1]
      /\ Effect("REFUNDED") = [Obligation!Untouched EXCEPT !["cash"] = 1]
  <2>1. Effect("POSTED") = [Obligation!Untouched EXCEPT !["ledger"] = 1]
    BY DEF Obligation!Untouched, Effect
  <2>2. Effect("APPLIED") = [Obligation!Untouched EXCEPT !["account"] = 1]
    BY DEF Obligation!Untouched, Effect
  <2>3. Effect("REFUNDED") = [Obligation!Untouched EXCEPT !["cash"] = 1]
    BY DEF Obligation!Untouched, Effect
  <2> QED
    BY <2>1, <2>2, <2>3
<1>4. \A status \in Statuses \ {"POSTED", "APPLIED", "REFUNDED"} :
          Effect(status) = Obligation!Untouched
  BY DEF Obligation!Untouched, Effect
<1> USE DEF Statuses, CreditOutcomes
<1>5. CASE op \in {"review", "approve", "reject", "mark_refund_due"}
  <2>1. r.status \in {"DRAFT", "REVIEWED", "APPROVED"}
    BY <1>1, <1>2, <1>5 DEF GuardHolds, CanReject, CanResolveCredit
  <2>2. NewRow(s).status \in {"REVIEWED", "APPROVED", "REJECTED", "REFUND_DUE"}
    BY <1>2, <1>5 DEF NewRow, Review, Approve, Reject, MarkRefundDue, Row
  <2> QED
    BY <1>4, <2>1, <2>2 DEF Turns
<1>6. CASE op = "post"
  <2>1. r.status = "APPROVED" /\ NewRow(s).status = "POSTED"
    BY <1>1, <1>2, <1>6 DEF GuardHolds, CanPost, NewRow, PostTo, Row
  <2> QED
    BY <1>3, <1>4, <2>1 DEF Obligation!Channels, Turns
<1>7. CASE op = "carry_forward"
  <2>1. r.status = "APPROVED" /\ NewRow(s).status = "APPLIED"
    BY <1>1, <1>2, <1>7 DEF GuardHolds, CanResolveCredit, NewRow, CarriedForward, Row
  <2> QED
    BY <1>3, <1>4, <2>1 DEF Obligation!Channels, Turns
<1>8. CASE op = "pay_refund_due"
  <2>1. r.status = "REFUND_DUE" /\ NewRow(s).status = "REFUNDED"
    BY <1>1, <1>2, <1>8 DEF GuardHolds, CanPayRefund, NewRow, Pay, Row
  <2> QED
    BY <1>3, <1>4, <2>1 DEF Obligation!Channels, Turns
<1>9. CASE op = "reverse_refund_payout"
  <2>1. Live(call[s].balance) # {}
    BY <1>1, <1>2, <1>9 DEF GuardHolds
  <2>2. r.status = "REFUNDED" /\ NewRow(s).status = "REFUND_DUE"
    BY <1>1, <1>2, <1>9, <2>1 DEF History, Unraced, CashIffRefunded, NewRow, Reopen, Row
  <2> QED
    BY <1>3, <1>4, <2>2 DEF Turns
<1> QED
  BY <1>5, <1>6, <1>7, <1>8, <1>9 DEF WriteOps, BalanceOps

(***************************************************************************)
(* Every step is a step of the abstract specification or a stutter.        *)
(***************************************************************************)
LEMMA StepImplements ==
    ASSUME History, [BalanceNext]_balanceVars
    PROVE  [Obligation!Next]_<<Discharges, crossed>>
<1>1. History' /\ Typed
  BY StepHistory DEF History, Constrained
<1>2. ASSUME UNCHANGED <<row, lines, payouts>>
      PROVE  Discharges' = Discharges
  BY <1>2 DEF Discharges, Live
<1>3. CASE ClosePeriod \/ UNCHANGED balanceVars
  BY <1>2, <1>3 DEF ClosePeriod, balanceVars
<1>4. ASSUME NEW s \in Callers, Reads(s) \/ DropCall(s)
      PROVE  UNCHANGED <<Discharges, crossed>>
  BY <1>2, <1>4, ReadsQuiet DEF Quiet, DropCall
<1>5. ASSUME NEW s \in Callers, NEW b \in Balances, EndCall(s, b),
             \A c \in Balances \ {b} :
                 row'[c] = row[c] /\ lines'[c] = lines[c] /\ payouts'[c] = payouts[c],
             b \notin crossed' => Turns(Effect(row[b].status), Effect(row'[b].status))
      PROVE  [Obligation!Next]_<<Discharges, crossed>>
  <2>1. \A c \in Balances \ {b} : Discharges'[c] = Discharges[c]
    BY <1>5 DEF Discharges, Live
  <2>2. crossed' = crossed \/ crossed' = crossed \cup {b}
    BY <1>5 DEF EndCall
  <2>3. CASE b \in crossed'
    <3>1. Obligation!Disturb(b)
      BY <2>1, <2>2, <2>3 DEF Obligation!Disturb
    <3> QED
      BY <3>1 DEF Obligation!Next
  <2>4. CASE b \notin crossed'
    <3>1. crossed' = crossed
      BY <2>2, <2>4
    <3>2. /\ Discharges[b] = Effect(row[b].status)
          /\ Discharges'[b] = Effect(row'[b].status)
      BY <1>1, <2>4, <3>1, StatusTellsEffect, StatusTellsEffectNext
    <3>3. Discharges' = [Discharges EXCEPT ![b] = Effect(row'[b].status)]
      BY <2>1, <3>2 DEF Discharges
    <3> DEFINE old == Effect(row[b].status)
               new == Effect(row'[b].status)
    <3>4. CASE new = old
      BY <3>1, <3>2, <3>3, <3>4 DEF Discharges
    <3>5. ASSUME NEW c \in Obligation!Channels,
                 old = Obligation!Untouched, new = [Obligation!Untouched EXCEPT ![c] = 1]
          PROVE  Obligation!Settle(b, c)
      BY <3>1, <3>2, <3>3, <3>5 DEF Obligation!Settle
    <3>6. CASE old = [Obligation!Untouched EXCEPT !.cash = 1] /\ new = Obligation!Untouched
      BY <3>1, <3>2, <3>3, <3>6 DEF Obligation!TakeBack, Obligation!Next
    <3> QED
      BY <1>5, <2>4, <3>4, <3>5, <3>6 DEF Obligation!Next, Turns
  <2> QED
    BY <2>3, <2>4
<1>6. ASSUME NEW s \in Callers, NEW b \in Balances, WritePropose(s, b)
      PROVE  [Obligation!Next]_<<Discharges, crossed>>
  <2>1. /\ EndCall(s, b) /\ UNCHANGED <<lines, payouts>>
        /\ \A c \in Balances \ {b} : row'[c] = row[c]
        /\ row'[b].status = "DRAFT" /\ row[b].status = "ABSENT"
    BY <1>1, <1>6 DEF WritePropose, Absent, Typed, BalanceTypeOK
  <2>2. Effect("DRAFT") = Effect("ABSENT")
    BY DEF Effect
  <2>3. Turns(Effect(row[b].status), Effect(row'[b].status))
    BY <2>1, <2>2 DEF Turns
  <2> QED
    BY <1>5, <2>1, <2>3
<1>7. ASSUME NEW s \in Callers, NEW op \in WriteOps, Write(s, op),
             \A c \in Balances :
                 c # call[s].balance => lines'[c] = lines[c] /\ payouts'[c] = payouts[c]
      PROVE  [Obligation!Next]_<<Discharges, crossed>>
  <2>1. /\ call[s].balance \in Balances /\ EndCall(s, call[s].balance)
        /\ row' = [row EXCEPT ![call[s].balance] = NewRow(s)]
    BY <1>1, <1>7, WriteTyped DEF Write
  <2>2. /\ \A c \in Balances \ {call[s].balance} : row'[c] = row[c]
        /\ row'[call[s].balance] = NewRow(s)
    BY <1>1, <2>1 DEF Typed, BalanceTypeOK
  <2>3. ASSUME call[s].balance \notin crossed'
        PROVE  Turns(Effect(row[call[s].balance].status), Effect(row'[call[s].balance].status))
    <3>1. Turns(Effect(row[call[s].balance].status), Effect(NewRow(s).status))
      BY <1>7, <2>3, StatusMoves
    <3> QED
      BY <2>2, <3>1
  <2>4. \A c \in Balances \ {call[s].balance} :
            row'[c] = row[c] /\ lines'[c] = lines[c] /\ payouts'[c] = payouts[c]
    BY <1>7, <2>2
  <2> QED
    BY <1>5, <2>1, <2>3, <2>4
<1>8. ASSUME NEW s \in Callers,
             \/ WriteReview(s)
             \/ WriteApprove(s)
             \/ WriteReject(s)
             \/ WriteCarryForward(s)
             \/ WriteMarkRefundDue(s)
      PROVE  [Obligation!Next]_<<Discharges, crossed>>
  BY <1>7, <1>8 DEF WriteReview, WriteApprove, WriteReject, WriteCarryForward,
                    WriteMarkRefundDue, WriteOps, BalanceOps
<1>9. ASSUME NEW s \in Callers, WritePost(s) \/ WritePayout(s) \/ WriteReversal(s)
      PROVE  [Obligation!Next]_<<Discharges, crossed>>
  BY <1>1, <1>7, <1>9, LiveAfterPayout, LiveAfterReversal
  DEF WritePost, WritePayout, WriteReversal, WriteOps, BalanceOps, Typed, BalanceTypeOK
<1> QED
  BY <1>3, <1>4, <1>6, <1>8, <1>9 DEF BalanceNext, Writes

(***************************************************************************)
(* The workflow implements Obligation for any number of balances, people   *)
(* and overlapping requests: a balance takes effect once and through one   *)
(* channel until it is written from an out-of-date instance.               *)
(***************************************************************************)
THEOREM ImplementsObligation == BalanceSpec => GivesEffectOnce
<1>1. BalanceInit => Obligation!Init
  <2>1. SUFFICES ASSUME BalanceInit PROVE Obligation!Init
    OBVIOUS
  <2>2. \A b \in Balances : Live(b) = {} /\ row[b].status = "ABSENT" /\ lines[b] = 0
    BY <2>1 DEF BalanceInit, Live, Absent
  <2> QED
    BY <2>1, <2>2, FS_EmptySet DEF BalanceInit, Obligation!Init, Obligation!Untouched, Discharges
<1> QED
  BY <1>1, StepImplements, AlwaysHistory, PTL DEF BalanceSpec, GivesEffectOnce, Obligation!Spec
=============================================================================
