----------------------------- MODULE MCTimerThread -----------------------------
(* One or two users and two POSIX threads. *)
EXTENDS TimerThread

CONSTANTS u1, u2, h1, h2

MCOneUser == {u1}
MCUsers == {u1, u2}
MCHandles == {h1, h2}
===============================================================================
