------------------------------ MODULE MCParts -------------------------------
(***************************************************************************)
(* Instances of Parts for TLC: all of its components for safety            *)
(* (Components.cfg), those in which something must happen once more with   *)
(* fairness (Ends.cfg), and the two that do not do what is said of them    *)
(* (Duplicate.cfg, Emitted.cfg).                                           *)
(***************************************************************************)
EXTENDS Parts, TLC

EitherOrder == Permutations(Procs)

\* What the anchors of this instance send: updates and disputes of a deposit,
\* two of them with one nonce.
Notice(anchor, nonce, kind, txn, to) ==
    [anchor |-> anchor, nonce |-> nonce, kind |-> kind, txn |-> txn, to |-> to, genuine |-> TRUE]
SampleEvents == {
    Notice("a", 1, "deposit_update", "t1", "error"),
    Notice("b", 1, "deposit_update", "t1", "refunded"),
    Notice("a", 2, "dispute_raised", "t1", "disputed"),
    Notice("a", 3, "dispute_resolved", "t1", "completed"),
    Notice("a", 4, "kyc_update", "t1", "approved"),
    Notice("a", 5, "contract_created", "t1", "none")}

\* What the on-ramps send, Transak in its envelope.
RampNotice(provider, order, status, enveloped, genuine) ==
    [provider |-> provider, order |-> order, status |-> status,
     enveloped |-> enveloped, genuine |-> genuine]
SampleRampNotices == {
    RampNotice("transak", "o1", "completed", TRUE, TRUE),
    RampNotice("moonpay", "o2", "failed", FALSE, TRUE)}

\* What is known of an asset: well established, middling, unknown.
SampleEvidence == {
    [rating |-> 5, toml |-> "good", trustlines |-> 1000, recent |-> 1, old |-> 20],
    [rating |-> 3, toml |-> "none", trustlines |-> 7, recent |-> 0, old |-> 0],
    [rating |-> 0, toml |-> "none", trustlines |-> 0, recent |-> 0, old |-> 0]}

=============================================================================
