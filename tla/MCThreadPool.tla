----------------------------- MODULE MCThreadPool -----------------------------
(* Two threads, so that one can sleep while the other waits, and posts for   *)
(* more than that.  The second waker is for a post to another semaphore.     *)
EXTENDS ThreadPool

MCCounts   == {-1, 2}
MCRequests == {0, 2}
MCOneWaker == {"w1"}
MCWakers   == {"w1", "w2"}
MCQChar    == 113
MCWithQ    == {-1, 0, 1, 113}
=============================================================================
