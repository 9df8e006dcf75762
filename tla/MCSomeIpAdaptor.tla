-------------------------- MODULE MCSomeIpAdaptor --------------------------
EXTENDS SomeIpAdaptor, TLC

\* The peers are interchangeable; a client outside the table is not one of them.
IdSymmetry == Permutations(Peers)

\* Times matter by the ages of the sessions only: the clock starts anywhere.
WithAges ==
  [s \in tlm_!Slots |->
     [session_table_[s] EXCEPT
        !.issued_at_ms = IF session_table_[s].is_active THEN tlm_!Age(s) ELSE 0]]

\* No hook reads what the last one returned, so states that differ only in that are
\* explored once, or twice rather: a short frame may arrive in any of them and changes
\* the answer only.  So each step is taken from a state with another answer than its
\* own, and none counts as a stutter because it repeats the answer before it.
StateView ==
  <<engines_, slot_records_, challenges, spent, WithAges, insertion_order_, since_scan,
    real_age, answer = "kInvalidFrame">>
=============================================================================
