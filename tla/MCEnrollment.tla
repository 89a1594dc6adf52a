---------------------------- MODULE MCEnrollment ----------------------------
(* Instances of Enrollment for TLC.                                        *)
EXTENDS Enrollment, TLC

\* No definition tells two logins, installations or passwords apart.
EnrollmentSymmetry ==
    Permutations(Login) \cup Permutations(Install) \cup Permutations(Password)
=============================================================================
