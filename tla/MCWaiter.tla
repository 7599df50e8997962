------------------------------- MODULE MCWaiter -------------------------------
(* Waits of up to four seconds, with polls that take up to two.              *)
EXTENDS Waiter

WaitOf(k, check, timeout, d) == [kind |-> k, check |-> check, timeout |-> timeout, delay |-> d]

\* tc_wait refuses a timeout or a delay that is not positive.
MCWaits ==
  {WaitOf(k, FALSE, timeout, d) : k \in Kinds, timeout \in {2, 3, 4}, d \in {1, 2, 3}}
    \cup {WaitOf(k, TRUE, 3, 1) : k \in Kinds}
    \cup {WaitOf(k, FALSE, timeout, 1) : k \in Kinds \ {"tc_wait"}, timeout \in {-1, 0}}
    \cup {WaitOf("state", FALSE, 3, 0)}
=============================================================================
