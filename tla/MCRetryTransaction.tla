-------------------------- MODULE MCRetryTransaction --------------------------
(* Two decorated calls, one of which leaves result sets unread.            *)
EXTENDS RetryTransaction
CONSTANTS c1, c2
MCCalls == {c1, c2}
MCHiddenKills == {c2}
=============================================================================
