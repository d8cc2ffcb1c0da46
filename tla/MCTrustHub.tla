----------------------------- MODULE MCTrustHub -----------------------------
(***************************************************************************)
(* Small instances of TrustHub for TLC.                                    *)
(***************************************************************************)
EXTENDS PolicyTable, TLC

CONSTANTS m1, m2, p1, p2, d1, d2, c1, c2, t1, t2, i1, i2, v1, v2, b1, b2, e1, e2, e3,
          alice, bob, acme

MCMeetingOf == [p \in Participants |-> m1]

\* Alice is participant p1, Bob p2.  The agent of d1 runs as Alice, the one of
\* d2 as Bob, or as Alice where a device of the wrong user is wanted.
MCIdentityOf == [p \in Participants |-> IF p = p1 THEN <<acme, alice>> ELSE <<acme, bob>>]
OwnAgents == [d \in Devices |-> IF d = d1 THEN <<acme, alice>> ELSE <<acme, bob>>]
AliceAgents == [d \in Devices |-> <<acme, alice>>]

NobodyBound == [p \in Participants |-> NoDevice]
FirstBound == [p \in Participants |-> IF p = p1 THEN d1 ELSE NoDevice]
BothOnFirst == [p \in Participants |-> d1]

Interchangeable == Permutations(Challenges) \union Permutations(Tokens)
  \union Permutations(IssueCalls) \union Permutations(VerifyCalls)
  \union Permutations(BindCalls) \union Permutations(EnrollCalls)
=============================================================================
