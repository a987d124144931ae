-------------------------- MODULE MCCausalityTest --------------------------
(* CausalityTest with ticks of a second or more.  The test runs with         *)
(* Gazebo's lidar here, and the software lidar without the test: neither     *)
(* reads anything of the other.                                              *)
EXTENDS CausalityTest

MCInit == Init /\ (trigger => ~softwareLidar)
MCSpec == MCInit /\ [][Next]_vars /\ Fairness
=============================================================================
