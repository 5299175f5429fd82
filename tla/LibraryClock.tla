----------------------------- MODULE LibraryClock -----------------------------
(***************************************************************************)
(* The clock that an instance reads, and the age of what its caches serve. *)
(***************************************************************************)
EXTENDS Integers

CONSTANT PollBound      \* age of the states that a cache may still serve

VARIABLE now            \* the library clock; instant 0 is Go's zero time

===============================================================================
