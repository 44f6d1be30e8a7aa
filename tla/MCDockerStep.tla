---------------------------- MODULE MCDockerStep ----------------------------
(* Two concurrent steps, which is what a stray kill takes.                 *)
EXTENDS DockerStep, TLC

CONSTANTS s1, s2

MCSteps == {s1, s2}
MCOneStep == {s1}
=============================================================================
