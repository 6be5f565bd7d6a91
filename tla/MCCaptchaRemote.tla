-------------------------- MODULE MCCaptchaRemote --------------------------
(* An instance of CaptchaRemote for TLC. *)
EXTENDS CaptchaRemote

CONSTANTS s1, s2, s3, default

\* Every search of the application runs under the id 'default'.
MCIdOf == [s \in Searches |-> default]
=============================================================================
