---------------------------- MODULE MCFormatRegistry ----------------------------
(***************************************************************************)
(* The safety run has two goroutines, two custom names, two validators and *)
(* one built-in name.  One text needs both custom names, so that a         *)
(* registration can fall between its two lookups; the other mixes a        *)
(* built-in and a custom name.  The liveness run has three goroutines, so  *)
(* that two can pass the lock back and forth while the third waits, and    *)
(* one custom name.                                                        *)
(***************************************************************************)
EXTENDS FormatRegistry

CONSTANTS a, b, email

MCTexts == {<<a, b>>, <<email, a>>}
MCOneText == {<<a>>}
=============================================================================
