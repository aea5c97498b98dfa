--------------------------- MODULE SettlementPreview ---------------------------
(***************************************************************************)
(* The API's preview of a settlement, which says that it mirrors the       *)
(* contract's compute_net_settlements: both turn a batch of remittances    *)
(* into one transfer per pair of parties.  The batch is taken one          *)
(* remittance at a time: the preview is computed as the API computes it,   *)
(* in one pass over the list, the settlement as the sums it stands for.    *)
(***************************************************************************)
EXTENDS Integers, Sequences, FiniteSetsExt

CONSTANTS
    Parties,   \* addresses, numbers in their order
    Amounts,   \* amounts, and fees
    Statuses,  \* statuses to tell apart
    MaxBatch   \* bound on the batch

PreviewAssumption ==
    /\ Parties \subseteq Nat /\ Amounts \subseteq Nat
    /\ Statuses \subseteq {"Pending", "Processing", "Completed", "Cancelled", "Failed", "Disputed"}
    /\ MaxBatch \in Nat

VARIABLES
    batch,   \* the request's remittances, as far as the pass has come
    netMap   \* the API's sums of them: net and fees of every pair met

vars == <<batch, netMap>>

Remittances == [sender : Parties, agent : Parties, amount : Amounts, fee : Amounts, status : Statuses]

-----------------------------------------------------------------------------
\* The API.
Direction(r) == IF r.sender < r.agent THEN 1 ELSE -1

Pair(r) == IF r.sender < r.agent THEN <<r.sender, r.agent>> ELSE <<r.agent, r.sender>>

Booked(net, r) ==
    LET existing == IF Pair(r) \in DOMAIN net THEN net[Pair(r)] ELSE [net |-> 0, fees |-> 0]
    IN [p \in DOMAIN net \cup {Pair(r)} |->
          IF p = Pair(r) THEN [net |-> existing.net + r.amount * Direction(r),
                               fees |-> existing.fees + r.fee]
                         ELSE net[p]]

Init == batch = <<>> /\ netMap = [p \in {} |-> [net |-> 0, fees |-> 0]]

\* The next remittance of the batch; only those pending are booked.
Next ==
    /\ Len(batch) < MaxBatch
    /\ \E r \in Remittances :
        /\ batch' = Append(batch, r)
        /\ netMap' = IF r.status = "Pending" THEN Booked(netMap, r) ELSE netMap

Spec == Init /\ [][Next]_vars

\* computeNetSettlements: what the pass leaves, without the pairs that cancel out.
Preview(net) ==
    {[pair |-> p, net |-> net[p].net, fees |-> net[p].fees] : p \in {q \in DOMAIN net : net[q].net # 0}}

TotalFees(transfers) == SumFunctionOnSet([t \in transfers |-> t.fees], transfers)

-----------------------------------------------------------------------------
\* The contract: for every pair the sums of its pending remittances, unless they cancel out.
PendingOf(rs, a, b) == {i \in DOMAIN rs : rs[i].status = "Pending" /\ rs[i].sender = a /\ rs[i].agent = b}
AmountsOf(rs) == [i \in DOMAIN rs |-> rs[i].amount]
FeesOf(rs) == [i \in DOMAIN rs |-> rs[i].fee]

SumOf(rs, a, b) == SumFunctionOnSet(AmountsOf(rs), PendingOf(rs, a, b))

Net(rs, a, b) == IF a = b THEN -SumOf(rs, a, a) ELSE SumOf(rs, a, b) - SumOf(rs, b, a)
Fees(rs, a, b) == SumFunctionOnSet(FeesOf(rs), PendingOf(rs, a, b) \cup PendingOf(rs, b, a))

Settlement(rs) ==
    {[pair |-> p, net |-> Net(rs, p[1], p[2]), fees |-> Fees(rs, p[1], p[2])] :
        p \in {q \in Parties \X Parties : q[1] <= q[2] /\ Net(rs, q[1], q[2]) # 0}}

-----------------------------------------------------------------------------
TypeOK ==
    /\ batch \in Seq(Remittances) /\ Len(batch) <= MaxBatch
    /\ DOMAIN netMap \subseteq Parties \X Parties
    /\ \A p \in DOMAIN netMap : netMap[p] \in [net : Int, fees : Int]

(***************************************************************************)
(* The preview is what the contract would settle, pair by pair, in any     *)
(* order of the batch; and its total of fees is the fees of all pending    *)
(* remittances, less those of the pairs that cancel out.                   *)
(***************************************************************************)
PreviewIsSettlement ==
    /\ Preview(netMap) = Settlement(batch)
    /\ TotalFees(Preview(netMap)) =
          SumFunctionOnSet(FeesOf(batch),
            {i \in DOMAIN batch : /\ batch[i].status = "Pending"
                                  /\ Pair(batch[i]) \in {t.pair : t \in Settlement(batch)}})

-----------------------------------------------------------------------------
\* What every remittance leaves: of the pairs that had a pending one, and of no other,
\* the API has the contract's sums.
IInv ==
    /\ TypeOK
    /\ DOMAIN netMap = {Pair(batch[i]) : i \in {j \in DOMAIN batch : batch[j].status = "Pending"}}
    /\ \A p \in DOMAIN netMap : /\ netMap[p].net = Net(batch, p[1], p[2])
                                /\ netMap[p].fees = Fees(batch, p[1], p[2])
=============================================================================
